---- MODULE Spec2Model ----
(***************************************************************************)
(* Model of the retrieval-augmented question-answering repository:         *)
(*   - the ingestion pipeline (src/ingest/ingest_cli.py,                   *)
(*     src/ingest/qdrant_utils.py): SpecIngest                             *)
(*   - the answer pipeline (src/backend/generation/api.py,                 *)
(*     rag_pipeline.py, rag_tool.py): SpecQuery                            *)
(*   - the response-extraction function of RAGAPI.query_json: SpecExtract  *)
(*   - the answer services (src/backend/rag_service.py,                    *)
(*     generation/agent_service.py): SpecService                           *)
(*   - retrieval (generation/retrieval_client.py, rag_pipeline.py, the     *)
(*     store's rank fusion, GET /api/search): SpecRetrieve                 *)
(*   - chunk identity (src/nasa_parser/nasa_parser/cli.py): SpecIdentity   *)
(*   - collection creation (qdrant_utils.ensure_collection):               *)
(*     SpecCollection                                                      *)
(*   - chat sessions (src/backend/routers/chat.py, session_manager.py):    *)
(*     SpecChat                                                            *)
(*   - stored threads, POST /answer (src/space_bio/backend/routers/chat.py,*)
(*     chat_chain.py, db.py, models.py): SpecAnswer                        *)
(*   - POST /api/thread (src/backend/main.py create_thread): SpecThread    *)
(***************************************************************************)
EXTENDS Integers, Sequences, FiniteSets, TLC

VARIABLES
    \* ---- ingestion (ingest_cli.main, qdrant_utils.upsert_batch)
    corpus,          \* the sorted *.jsonl files of input_dir, each a sequence of records
    run,             \* "first": the original invocation; "resumed": restarted with --start-index
    start_index,     \* the --start-index option of the current invocation
    files,           \* the file list the current invocation iterates over
    fi,              \* position of the outer loop in files (1-based)
    ri,              \* position of the inner loop in files[fi] (1-based)
    buffer_records,  \* main.buffer_records
    buffer_texts,    \* main.buffer_texts
    pc,              \* "read" | "flush" | "upload" | "failed" | "done"
    ret,             \* where flush() returns to: "rec" (line 76) or "eof" (line 77)
    dvecs,           \* flush.dvecs
    svecs,           \* flush.svecs
    up_start,        \* upsert_batch.start
    attempt,         \* upsert_batch.attempt
    waits,           \* the sleeps of upsert_batch between the attempts of the current chunk
    flushes,         \* the batches handed to upsert_batch by the current invocation
    calls,           \* number of client.upload_collection calls made for the current chunk
    store,           \* the points of the collection in the vector store
    encoded,         \* every text handed to an encoder so far
    ingested,        \* every record written to the store so far
    twice,           \* every record written to the store at least twice so far
    lastRec,         \* the record written last to the store (NoRec before any write)
    \* ---- response extraction (RAGAPI.query_json lines 42-75)
    raw_answer,      \* result["answer"]: the LLM's text, a sequence of tokens
    answer_text,     \* query_json.answer_text when it is handed to json.loads
    x_pc,            \* "start" | "extracted"
    \* ---- one question through RAGAPI.query_json, RAGPipeline.query, RAGSearchTool._run
    q_pc,            \* position in the query
    retrieved_docs,  \* RAGPipeline.query.retrieved_docs: the payloads retrieved
    llm_obj,         \* the JSON object the LLM's text denotes (NoObj: none)
    result,          \* query_json.result: what RAGPipeline.query returned
    json_response,   \* query_json.json_response
    response,        \* what query_json returns
    parse_outcome,   \* "none" | "ok" | "failed": how json.loads ended
    llm_calls,       \* number of calls of GeminiClient.generate_answer
    store_queries,   \* number of calls of RetrievalClient.retrieve_top_k
    tool_out,        \* what RAGSearchTool._run returns: "answer" | "search_error"
    \* ---- image enrichment (RAGAPI.query_json lines 96-102, image_search_service.py)
    image_keywords,  \* json_response["image_keywords"]: one of KeywordKinds
    image_search,    \* how the image step ended: "not_run" | "skipped" | "found" | "search_failed" | "raised"
    image_urls,      \* json_response["image_urls"] of the returned answer
    \* ---- the answer services (RAGService, AgentService)
    svc,             \* the generate_answer being run: "rag_service" | "agent_service"
    s_pc,            \* position in the service
    svc_response,    \* the RAGResponse generate_answer returns
    svc_path,        \* the step that produced svc_response
    direct_calls,    \* number of calls of RAGService.llm.invoke
    \* ---- retrieval (RetrievalClient.retrieve_top_k, RAGPipeline, GET /api/search)
    r_pc,            \* "start" | "ready" | "called" ("idle" outside retrieval)
    top_k,           \* RAGPipeline.top_k (0 before construction)
    dense_rank,      \* the store's dense ranking of its points for the query
    sparse_rank,     \* the store's sparse ranking of its points for the query
    asked,           \* the limits the pipeline has asked the store for
    r_points,        \* resp.points of the last query_points call
    r_results,       \* what the last retrieve_top_k returned
    r_status,        \* the last call: who made it, its limit, the store's and its own outcome
    \* ---- chunk identity (nasa_parser cli make_id)
    id_a,            \* a triple (pmcid_val, section_path, text_val)
    id_b,            \* another triple
    id_out,          \* <<make_id of id_a, make_id of id_b>>
    id_pc,           \* "start" | "done"
    \* ---- collection creation (qdrant_utils.ensure_collection)
    collections,     \* the collections of the store, each a name and a configuration
    create_requests, \* number of create_collection requests issued for cfg.collection
    ensure_calls,    \* number of ensure_collection calls made
    c_last,          \* how the last ensure_collection call ended
    \* ---- chat sessions (routers/chat.py, session_manager.py)
    sessions,        \* SessionManager.sessions: session id -> messages
    ids_used,        \* number of session ids created so far
    handed,          \* conversation_history of the last POST /chat
    chat_log,        \* session id -> the (message, answer) turns answered in it
    last_chat,       \* the request of the last POST /chat and the session that answered it
    \* ---- stored threads (src/space_bio/backend/routers/chat.py, chat_chain.py, db.py)
    a_thread,        \* whether the thread row of the requests exists
    a_pc,            \* per POST /answer request: its position in generate_answer
    a_q,             \* per request: request.q
    a_session,       \* per request: the rows its session has inserted and not committed
    a_history,       \* per request: the rows get_history read for it
    a_sent,          \* per request: the messages list handed to llm.invoke
    a_reply,         \* per request: assistant_text
    db_messages,     \* the committed rows of the messages table for the thread
    a_clock,         \* datetime.utcnow at the last insert, as a logical time
    \* ---- POST /api/thread (src/backend/main.py create_thread)
    thread_response  \* the ThreadResponse returned for the message

ingestVars == <<corpus, run, start_index, files, fi, ri, buffer_records, buffer_texts,
                pc, ret, dvecs, svecs, up_start, attempt, waits, flushes, calls, store, encoded,
                ingested, twice, lastRec>>

extractVars == <<raw_answer, answer_text, x_pc>>

queryVars == <<q_pc, retrieved_docs, llm_obj, result, json_response, response,
               parse_outcome, llm_calls, store_queries, tool_out>>

imageVars == <<image_keywords, image_search, image_urls>>

serviceVars == <<svc, s_pc, svc_response, svc_path, direct_calls>>

retrieveVars == <<r_pc, top_k, dense_rank, sparse_rank, asked, r_points, r_results, r_status>>

identityVars == <<id_a, id_b, id_out, id_pc>>

collectionVars == <<collections, create_requests, ensure_calls, c_last>>

chatVars == <<sessions, ids_used, handed, chat_log, last_chat>>

answerVars == <<a_thread, a_pc, a_q, a_session, a_history, a_sent, a_reply, db_messages, a_clock>>

tailVars == <<answerVars, thread_response>>

laterVars == <<serviceVars, retrieveVars, identityVars, collectionVars, chatVars, tailVars>>

vars == <<ingestVars, extractVars, queryVars, imageVars, laterVars>>

\* the components that a specification leaves out stay as they are here
ImageIdle == image_keywords = "absent" /\ image_search = "not_run" /\ image_urls = <<>>
ServiceIdle ==
    /\ svc = "idle"
    /\ s_pc = "idle"
    /\ svc_response = <<>>
    /\ svc_path = "none"
    /\ direct_calls = 0
RetrieveIdle ==
    /\ r_pc = "idle"
    /\ top_k = 0
    /\ dense_rank = <<>>
    /\ sparse_rank = <<>>
    /\ asked = {}
    /\ r_points = <<>>
    /\ r_results = <<>>
    /\ r_status = "none"
IdentityIdle == id_a = <<>> /\ id_b = <<>> /\ id_out = <<>> /\ id_pc = "idle"
CollectionIdle ==
    /\ collections = {}
    /\ create_requests = 0
    /\ ensure_calls = 0
    /\ c_last = "idle"
ChatIdle ==
    /\ sessions = <<>>
    /\ ids_used = 0
    /\ handed = <<>>
    /\ chat_log = <<>>
    /\ last_chat = <<>>

AnswerIdle ==
    /\ a_thread = FALSE
    /\ a_pc = <<>>
    /\ a_q = <<>>
    /\ a_session = <<>>
    /\ a_history = <<>>
    /\ a_sent = <<>>
    /\ a_reply = <<>>
    /\ db_messages = {}
    /\ a_clock = 0
ThreadIdle == thread_response = <<>>
TailIdle == AnswerIdle /\ ThreadIdle

(***************************************************************************)
(* Bounds and program constants                                            *)
(***************************************************************************)
\* total number of records in the corpus
MaxRecs == 3
\* length of an LLM response, in tokens
MaxLen == 6
\* length of the citations list of an LLM answer
MaxCites == 2
\* largest inline marker [n] of an LLM answer
MaxMarker == 2
\* number of documents the store returns for a query
MaxDocs == 1
\* the --batch-size option
BatchSize == 2
\* number of points of the collection that match a query
MaxPoints == 3
\* largest k of a direct retrieve_top_k call
MaxK == 2
\* longest section path and longest body text given to make_id
MaxField == 2
\* number of ensure_collection calls made in sequence
MaxEnsure == 3
\* number of chat turns in one session
MaxTurns == 2
\* number of concurrent POST /answer requests on the thread
MaxRequests == 2
\* upsert_batch: retry_backoff_sec = 2.0
retry_backoff_sec == 2
\* RAGPipeline.__init__: self.top_k = 15
FixedTopK == 15
\* the constant k of reciprocal rank fusion
RRFk == 60
\* upsert_batch(max_retries=5)
max_retries == 5
\* flush(): upload_batch_size = max(16, batch_size)
MinUploadBatch == 16

Min(a, b) == IF a < b THEN a ELSE b
Max(a, b) == IF a > b THEN a ELSE b

SeqsUpTo(S, n) == UNION {[1..k -> S] : k \in 0..n}

(***************************************************************************)
(* Chunk records                                                           *)
(***************************************************************************)
\* a key that is absent from the record (rec.get(...) returns None)
Missing == "<missing>"
NoRec == [id |-> "<none>", text |-> "<none>"]

\* two revisions of chunk "a", a record without id whose text is "a",
\* a record with empty text and a record without text
RecordKinds ==
    { [id |-> "a", text |-> "x"],
      [id |-> "a", text |-> "y"],
      [id |-> Missing, text |-> "a"],
      [id |-> "b", text |-> ""],
      [id |-> "c", text |-> Missing] }

Corpora ==
    { c \in SeqsUpTo(RecordKinds, MaxRecs) \X SeqsUpTo(RecordKinds, MaxRecs) :
        Len(c[1]) + Len(c[2]) <= MaxRecs }

\* str(rec.get("text") or "")
TextOf(rec) == IF rec.text = Missing THEN "" ELSE rec.text

\* uuid.uuid5(uuid.NAMESPACE_URL, basis): a deterministic, collision-free name-based UUID
uuid5(basis) == <<"uuid5", basis>>

make_point_id_unstable(record) ==
    uuid5(<<(IF record.id # Missing /\ record.id # "" THEN record.id ELSE TextOf(record)), run>>)

make_point_id(record) ==
    IF record.id # Missing /\ record.id # ""
    THEN uuid5(record.id)
    ELSE uuid5(TextOf(record))

\* DenseEncoder.encode / SpladeEncoder.encode: one vector per text, a function of the text
DenseVec(text) == <<"dense", text>>
SparseVec(text) == <<"sparse", text>>
EncodeDense(texts) == [i \in 1..Len(texts) |-> DenseVec(texts[i])]
EncodeSparse(texts) == [i \in 1..Len(texts) |-> SparseVec(texts[i])]

(***************************************************************************)
(* Vector store                                                            *)
(***************************************************************************)
\* upsert of one point: a point of the same id is overwritten
Upsert(s, pt) == {q \in s : q.id # pt.id} \cup {pt}

RECURSIVE UploadPoints(_, _)
UploadPoints(s, pts) ==
    IF pts = <<>> THEN s
    ELSE UploadPoints(Upsert(s, Head(pts)), Tail(pts))

\* upsert_batch lines 93-99: the points of records[start:end]
ChunkPoints(records, dense, sparse, start, end) ==
    [i \in 1..(end - start) |->
        [id      |-> make_point_id(records[start + i]),
         payload |-> records[start + i],
         dense   |-> dense[start + i],
         sparse  |-> sparse[start + i]]]

\* upsert_batch line 116: time.sleep(retry_backoff_sec * attempt)
SleepFor(a) == retry_backoff_sec * a

RetryExhaustedLate(a) == a > max_retries

\* upsert_batch line 114
RetryExhausted(a) == a >= max_retries

ResumeFilesSkipping(all, idx) ==
    IF idx > 0 THEN SubSeq(all, idx + 2, Len(all)) ELSE all

\* main lines 45-46: files = files[start_index:]
ResumeFiles(all, idx) ==
    IF idx > 0 THEN SubSeq(all, idx + 1, Len(all)) ELSE all

(***************************************************************************)
(* Ingestion: ingest_cli.main                                              *)
(***************************************************************************)
InitIngest ==
    /\ corpus \in Corpora
    /\ run = "first"
    /\ start_index = 0
    /\ files = ResumeFiles(corpus, 0)
    /\ fi = 1
    /\ ri = 1
    /\ buffer_records = <<>>
    /\ buffer_texts = <<>>
    /\ pc = "read"
    /\ ret = "rec"
    /\ dvecs = <<>>
    /\ svecs = <<>>
    /\ up_start = 0
    /\ attempt = 0
    /\ waits = <<>>
    /\ flushes = <<>>
    /\ calls = 0
    /\ store = {}
    /\ encoded = {}
    /\ ingested = {}
    /\ twice = {}
    /\ lastRec = NoRec

BatchFullLate(n) == n > BatchSize

\* line 75: if len(buffer_records) >= batch_size
BatchFull(n) == n >= BatchSize

\* flush lines 57-64: the arguments of upsert_batch, record i with vectors i
BatchOf(records, dense, sparse) ==
    [i \in 1..Len(records) |-> [rec |-> records[i], dense |-> dense[i], sparse |-> sparse[i]]]

SkipsRecordNever(text) == FALSE

\* lines 71-72: if not text: continue
SkipsRecord(text) == text = ""

\* lines 69-76: one iteration of the inner loop
ReadRecord ==
    /\ pc = "read"
    /\ fi <= Len(files)
    /\ ri <= Len(files[fi])
    /\ LET rec == files[fi][ri]
           text == TextOf(rec)
       IN  /\ ri' = ri + 1
           /\ IF SkipsRecord(text)
              THEN UNCHANGED <<buffer_records, buffer_texts, pc, ret>>
              ELSE /\ buffer_records' = Append(buffer_records, rec)
                   /\ buffer_texts' = Append(buffer_texts, text)
                   /\ IF BatchFull(Len(buffer_records) + 1)
                      THEN pc' = "flush" /\ ret' = "rec"
                      ELSE UNCHANGED <<pc, ret>>
    /\ UNCHANGED <<corpus, run, start_index, files, fi, dvecs, svecs, up_start,
                   attempt, waits, flushes, calls, store, encoded, ingested, twice, lastRec>>
    /\ UNCHANGED <<extractVars, queryVars, imageVars, laterVars>>

\* line 77: the inner loop is exhausted, flush() at the end of the file
EndOfFile ==
    /\ pc = "read"
    /\ fi <= Len(files)
    /\ ri > Len(files[fi])
    /\ pc' = "flush"
    /\ ret' = "eof"
    /\ UNCHANGED <<corpus, run, start_index, files, fi, ri, buffer_records,
                   buffer_texts, dvecs, svecs, up_start, attempt, waits, flushes, calls, store,
                   encoded, ingested, twice, lastRec>>
    /\ UNCHANGED <<extractVars, queryVars, imageVars, laterVars>>

\* control after flush() returns: back into the inner loop, or on to the next file
AfterFlushPc == IF ret = "rec" THEN "read"
                ELSE IF fi + 1 > Len(files) THEN "done" ELSE "read"
AfterFlushFi == IF ret = "rec" THEN fi ELSE fi + 1
AfterFlushRi == IF ret = "rec" THEN ri ELSE 1

\* flush lines 53-54: nothing buffered
FlushEmpty ==
    /\ pc = "flush"
    /\ buffer_records = <<>>
    /\ pc' = AfterFlushPc
    /\ fi' = AfterFlushFi
    /\ ri' = AfterFlushRi
    /\ UNCHANGED <<corpus, run, start_index, files, buffer_records, buffer_texts,
                   ret, dvecs, svecs, up_start, attempt, waits, flushes, calls, store, encoded,
                   ingested, twice, lastRec>>
    /\ UNCHANGED <<extractVars, queryVars, imageVars, laterVars>>

\* flush lines 55-56 and upsert_batch lines 84-101: both encoders return
FlushEncode ==
    /\ pc = "flush"
    /\ buffer_records # <<>>
    /\ encoded' = encoded \cup {buffer_texts[i] : i \in 1..Len(buffer_texts)}
    /\ dvecs' = EncodeDense(buffer_texts)
    /\ svecs' = EncodeSparse(buffer_texts)
    /\ up_start' = 0
    /\ attempt' = 0
    /\ waits' = <<>>
    /\ flushes' = Append(flushes, BatchOf(buffer_records, EncodeDense(buffer_texts),
                                           EncodeSparse(buffer_texts)))
    /\ calls' = 0
    /\ pc' = "upload"
    /\ UNCHANGED <<corpus, run, start_index, files, fi, ri, buffer_records,
                   buffer_texts, ret, store, ingested, twice, lastRec>>
    /\ UNCHANGED <<extractVars, queryVars, imageVars, laterVars>>

\* flush lines 55-56: an encoder raises; nothing catches it, main ends
EncodeFails ==
    /\ pc = "flush"
    /\ buffer_records # <<>>
    /\ encoded' = encoded \cup {buffer_texts[i] : i \in 1..Len(buffer_texts)}
    /\ pc' = "failed"
    /\ UNCHANGED <<corpus, run, start_index, files, fi, ri, buffer_records,
                   buffer_texts, ret, dvecs, svecs, up_start, attempt, waits, flushes, calls,
                   store, ingested, twice, lastRec>>
    /\ UNCHANGED <<extractVars, queryVars, imageVars, laterVars>>

upload_batch_size == Max(MinUploadBatch, BatchSize)
UpEnd == Min(up_start + upload_batch_size, Len(buffer_records))
CurrentChunk == ChunkPoints(buffer_records, dvecs, svecs, up_start, UpEnd)

\* history: the payloads of a sequence of points, and those among them that
\* were already written before or occur twice in the sequence
Payloads(pts) == {pts[i].payload : i \in 1..Len(pts)}
WrittenAgain(before, pts) ==
    {pts[i].payload : i \in {j \in 1..Len(pts) :
        pts[j].payload \in before \/ \E h \in 1..(j - 1) : pts[h].payload = pts[j].payload}}

\* upsert_batch lines 104-111: the upload of the current chunk succeeds;
\* then the next chunk, or flush lines 65-66 and the return of flush()
UploadOk ==
    /\ pc = "upload"
    /\ calls' = IF UpEnd < Len(buffer_records) THEN 0 ELSE calls + 1
    /\ store' = UploadPoints(store, CurrentChunk)
    /\ ingested' = ingested \cup Payloads(CurrentChunk)
    /\ twice' = twice \cup WrittenAgain(ingested, CurrentChunk)
    /\ lastRec' = CurrentChunk[Len(CurrentChunk)].payload
    /\ IF UpEnd < Len(buffer_records)
       THEN /\ up_start' = UpEnd
            /\ attempt' = 0
            /\ waits' = <<>>
            /\ UNCHANGED <<buffer_records, buffer_texts, pc, fi, ri>>
       ELSE /\ buffer_records' = <<>>
            /\ buffer_texts' = <<>>
            /\ pc' = AfterFlushPc
            /\ fi' = AfterFlushFi
            /\ ri' = AfterFlushRi
            /\ UNCHANGED <<up_start, attempt, waits>>
    /\ UNCHANGED <<corpus, run, start_index, files, ret, dvecs, svecs, encoded,
                   flushes>>
    /\ UNCHANGED <<extractVars, queryVars, imageVars, laterVars>>

\* upsert_batch lines 112-116: the upload raises, after the store has applied
\* the first k points of the chunk (k = 0: nothing; k = all: the reply was lost);
\* retry after the sleep, or re-raise out of upsert_batch, flush and main
UploadFails ==
    /\ pc = "upload"
    /\ \E k \in 0..Len(CurrentChunk) :
        /\ store' = UploadPoints(store, SubSeq(CurrentChunk, 1, k))
        /\ ingested' = ingested \cup Payloads(SubSeq(CurrentChunk, 1, k))
        /\ twice' = twice \cup WrittenAgain(ingested, SubSeq(CurrentChunk, 1, k))
        /\ lastRec' = IF k = 0 THEN lastRec ELSE CurrentChunk[k].payload
    /\ calls' = calls + 1
    /\ attempt' = attempt + 1
    /\ waits' = IF RetryExhausted(attempt + 1) THEN waits
                ELSE Append(waits, SleepFor(attempt + 1))
    /\ pc' = IF RetryExhausted(attempt + 1) THEN "failed" ELSE "upload"
    /\ UNCHANGED <<corpus, run, start_index, files, fi, ri, buffer_records,
                   buffer_texts, ret, dvecs, svecs, up_start, encoded, flushes>>
    /\ UNCHANGED <<extractVars, queryVars, imageVars, laterVars>>

\* the first invocation died (a crash, or the exception of a failed flush) while
\* file fi was being processed; the operator runs main again with
\* --start-index = the index of that file (lines 36-50)
Resume ==
    /\ run = "first"
    /\ pc \in {"read", "flush", "upload", "failed"}
    /\ run' = "resumed"
    /\ start_index' = fi - 1
    /\ files' = ResumeFiles(corpus, fi - 1)
    /\ fi' = 1
    /\ ri' = 1
    /\ buffer_records' = <<>>
    /\ buffer_texts' = <<>>
    /\ pc' = IF Len(ResumeFiles(corpus, fi - 1)) = 0 THEN "done" ELSE "read"
    /\ ret' = "rec"
    /\ dvecs' = <<>>
    /\ svecs' = <<>>
    /\ up_start' = 0
    /\ attempt' = 0
    /\ waits' = <<>>
    /\ flushes' = <<>>
    /\ calls' = 0
    /\ UNCHANGED <<corpus, store, encoded, ingested, twice, lastRec>>
    /\ UNCHANGED <<extractVars, queryVars, imageVars, laterVars>>

\* the variables of the other components, at rest
ExtractIdle == raw_answer = <<>> /\ answer_text = <<>> /\ x_pc = "idle"
QueryIdle ==
    /\ q_pc = "idle"
    /\ retrieved_docs = <<>>
    /\ llm_obj = <<>>
    /\ result = <<>>
    /\ json_response = <<>>
    /\ response = <<>>
    /\ parse_outcome = "none"
    /\ llm_calls = 0
    /\ store_queries = 0
    /\ tool_out = "none"

NextIngest ==
    \/ ReadRecord
    \/ EndOfFile
    \/ FlushEmpty
    \/ FlushEncode
    \/ EncodeFails
    \/ UploadOk
    \/ UploadFails
    \/ Resume

\* the ingestion run alone: no question is being answered
IngestionInit ==
    /\ InitIngest /\ ExtractIdle /\ QueryIdle /\ ImageIdle
    /\ ServiceIdle /\ RetrieveIdle /\ IdentityIdle /\ CollectionIdle /\ ChatIdle /\ TailIdle

SpecIngest == IngestionInit /\ [][NextIngest]_vars

(***************************************************************************)
(* Response extraction: RAGAPI.query_json lines 42-75.                     *)
(* A text is a sequence of tokens: the fence (three backticks), the word   *)
(* json, the two braces, any other character ("p") and white space (" "). *)
(* Positions are 0-based as in Python; -1 is "not found".                  *)
(***************************************************************************)
Fence == "fence"
Tokens == {Fence, "json", "{", "}", "p", " "}
JsonFence == <<Fence, "json">>

TextsOfLen(n) == [1..n -> Tokens]

\* s[a:b]
Slice(s, a, b) == SubSeq(s, a + 1, b)

\* pat occurs in s at position i
OccursAt(s, pat, i) ==
    /\ i + Len(pat) <= Len(s)
    /\ \A j \in 1..Len(pat) : s[i + j] = pat[j]

\* s.find(pat, start)
RECURSIVE Find(_, _, _)
Find(s, pat, start) ==
    IF start + Len(pat) > Len(s) THEN -1
    ELSE IF OccursAt(s, pat, start) THEN start
    ELSE Find(s, pat, start + 1)

\* s.rfind(pat), searched downwards from position from
RECURSIVE RFindFrom(_, _, _)
RFindFrom(s, pat, from) ==
    IF from < 0 THEN -1
    ELSE IF OccursAt(s, pat, from) THEN from
    ELSE RFindFrom(s, pat, from - 1)

RFind(s, pat) == RFindFrom(s, pat, Len(s) - Len(pat))

\* s.strip()
RECURSIVE LStrip(_)
LStrip(s) == IF s # <<>> /\ Head(s) = " " THEN LStrip(Tail(s)) ELSE s
RECURSIVE RStrip(_)
RStrip(s) ==
    IF s # <<>> /\ s[Len(s)] = " " THEN RStrip(SubSeq(s, 1, Len(s) - 1)) ELSE s
Strip(s) == RStrip(LStrip(s))

StartsWith(s, c) == s # <<>> /\ s[1] = c
EndsWith(s, c) == s # <<>> /\ s[Len(s)] = c

\* lines 45-50: the text has a fence followed by json
SelectJsonFence(text) ==
    LET start == Find(text, JsonFence, 0) + Len(JsonFence)
        end == Find(text, <<Fence>>, start)
    IN  IF end # -1 THEN Strip(Slice(text, start, end)) ELSE text

\* lines 51-56: the text has a fence
SelectAnyFence(text) ==
    LET start == Find(text, <<Fence>>, 0) + Len(<<Fence>>)
        end == Find(text, <<Fence>>, start)
    IN  IF end # -1 THEN Strip(Slice(text, start, end)) ELSE text

\* lines 57-62: no marker
SelectBraces(text) ==
    LET first_brace == Find(text, <<"{">>, 0)
        last_brace == RFind(text, <<"}">>)
    IN  IF first_brace # -1 /\ last_brace # -1 /\ last_brace > first_brace
        THEN Slice(text, first_brace, last_brace + 1)
        ELSE text

\* lines 45-62
SelectText(text) ==
    IF Find(text, JsonFence, 0) # -1 THEN SelectJsonFence(text)
    ELSE IF Find(text, <<Fence>>, 0) # -1 THEN SelectAnyFence(text)
    ELSE SelectBraces(text)

CleanupStartSkipped(text) == text

\* lines 65-68
CleanupStart(text) ==
    IF ~StartsWith(Strip(text), "{")
    THEN LET first_brace == Find(text, <<"{">>, 0)
         IN  IF first_brace # -1 THEN Slice(text, first_brace, Len(text)) ELSE text
    ELSE text

CleanupEndAtFirst(text) ==
    IF ~EndsWith(Strip(text), "}")
    THEN LET last_brace == Find(text, <<"}">>, 0)
         IN  IF last_brace # -1 THEN Slice(text, 0, last_brace + 1) ELSE text
    ELSE text

\* lines 70-73
CleanupEnd(text) ==
    IF ~EndsWith(Strip(text), "}")
    THEN LET last_brace == RFind(text, <<"}">>)
         IN  IF last_brace # -1 THEN Slice(text, 0, last_brace + 1) ELSE text
    ELSE text

\* lines 44-73: the text handed to json.loads
ExtractJSONText(text) == CleanupEnd(CleanupStart(SelectText(text)))

\* a JSON object without nested braces: '{', other characters, '}'
IsFlatObject(t) ==
    /\ Len(t) >= 2
    /\ t[1] = "{"
    /\ t[Len(t)] = "}"
    /\ \A i \in 2..(Len(t) - 1) : t[i] \in {"p", " ", "json"}

\* line 75: json.loads(answer_text) returns (white space around the value is
\* skipped; "p" stands for characters that are no JSON value by themselves)
JsonLoadsOk(text) == IsFlatObject(Strip(text))

IngestIdle ==
    /\ corpus = <<<<>>, <<>>>>
    /\ run = "first"
    /\ start_index = 0
    /\ files = <<>>
    /\ fi = 1
    /\ ri = 1
    /\ buffer_records = <<>>
    /\ buffer_texts = <<>>
    /\ pc = "idle"
    /\ ret = "rec"
    /\ dvecs = <<>>
    /\ svecs = <<>>
    /\ up_start = 0
    /\ attempt = 0
    /\ waits = <<>>
    /\ flushes = <<>>
    /\ calls = 0
    /\ store = {}
    /\ encoded = {}
    /\ ingested = {}
    /\ twice = {}
    /\ lastRec = NoRec

InitExtract ==
    /\ \E n \in 0..MaxLen : raw_answer \in TextsOfLen(n)
    /\ answer_text = <<>>
    /\ x_pc = "start"

\* lines 44-73 applied to one response
RunExtract ==
    /\ x_pc = "start"
    /\ answer_text' = ExtractJSONText(raw_answer)
    /\ x_pc' = "extracted"
    /\ UNCHANGED raw_answer
    /\ UNCHANGED <<ingestVars, queryVars, imageVars, laterVars>>

NextExtract == RunExtract

\* the extraction alone
ExtractionInit ==
    /\ InitExtract /\ IngestIdle /\ QueryIdle /\ ImageIdle
    /\ ServiceIdle /\ RetrieveIdle /\ IdentityIdle /\ CollectionIdle /\ ChatIdle /\ TailIdle

SpecExtract == ExtractionInit /\ [][NextExtract]_vars

(***************************************************************************)
(* One question: RAGPipeline.query, RAGAPI.query_json, RAGSearchTool._run  *)
(***************************************************************************)
\* a key that is absent from a dict
NoError == "<absent>"
NoUrl == "<absent>"
\* JSON null and a JSON array (an unhashable value) as the url of a citation object
Null == "<null>"
Arr == "<array>"

\* entries of the "citations" array of an LLM answer: URL strings (one of them
\* empty) and {id, url, why_relevant} objects
CitationItems ==
    { [kind |-> "str", url |-> "U1"],
      [kind |-> "str", url |-> "U2"],
      [kind |-> "str", url |-> ""],
      [kind |-> "obj", url |-> "U1"],
      [kind |-> "obj", url |-> Null],
      [kind |-> "obj", url |-> Arr] }

\* payloads of retrieved points: with a url, without one
PayloadKinds == { [url |-> "U1"], [url |-> NoUrl] }
DocLists == SeqsUpTo(PayloadKinds, MaxDocs)

\* the JSON object an LLM text denotes: the inline markers [n] of
\* answer_markdown, the citations array (or no such key), the confidence score
LLMObject(m, hc, c, s) ==
    [markers |-> m, has_citations |-> hc, citations |-> c, confidence |-> s]
NoObj == LLMObject({}, FALSE, <<>>, -1)
CitationLists(n) == [1..n -> CitationItems]

\* the texts an LLM returns: a bare object, prose and a fenced object, prose
\* alone, a fenced object cut short
RawShapes ==
    { <<"{", "p", "}">>,
      <<"p", Fence, "json", "{", "p", "}", Fence>>,
      <<"p">>,
      <<Fence, "json", "{", "p", Fence>> }

\* the values of answer / answer_markdown
RawAnswer(text) == [kind |-> "raw", markers |-> {}, text |-> text]
LLMMarkdown(markers) == [kind |-> "llm_markdown", markers |-> markers, text |-> <<>>]
\* rag_pipeline.py line 50
NoMatchAnswer == [kind |-> "no_match", markers |-> {}, text |-> <<>>]
\* rag_pipeline.py line 71
PipelineErrorAnswer == [kind |-> "pipeline_error", markers |-> {}, text |-> <<>>]
\* api.py line 117
ApiErrorAnswer == [kind |-> "api_error", markers |-> {}, text |-> <<>>]

\* query_json lines 32-39: result.get("error", "Unknown error")
FailureResponse(res) ==
    [answer |-> res.answer, has_citations |-> TRUE, citations |-> <<>>,
     confidence |-> 0,
     error |-> IF res.error = NoError THEN "Unknown error" ELSE res.error]

ParseFailureResponseSilent(res) ==
    [answer |-> res.answer, has_citations |-> TRUE, citations |-> <<>>,
     confidence |-> 0, error |-> NoError]

\* query_json lines 105-113
ParseFailureResponse(res) ==
    [answer |-> res.answer, has_citations |-> TRUE, citations |-> <<>>,
     confidence |-> 0, error |-> "Failed to parse JSON response"]

\* query_json lines 115-122
ExceptionResponse(msg) ==
    [answer |-> ApiErrorAnswer, has_citations |-> TRUE, citations |-> <<>>,
     confidence |-> 0, error |-> msg]

RECURSIVE UniqueCitationsForgetful(_, _, _)
UniqueCitationsForgetful(citations, unique_citations, seen_urls) ==
    IF citations = <<>> THEN unique_citations
    ELSE LET citation == Head(citations)
         IN  IF citation.kind \in {"str", "obj"} /\ citation.url \notin seen_urls
             THEN UniqueCitationsForgetful(Tail(citations),
                                           Append(unique_citations, citation.url),
                                           seen_urls)
             ELSE UniqueCitationsForgetful(Tail(citations), unique_citations, seen_urls)

\* query_json lines 82-93: the loop over the citations
RECURSIVE UniqueCitations(_, _, _)
UniqueCitations(citations, unique_citations, seen_urls) ==
    IF citations = <<>> THEN unique_citations
    ELSE LET citation == Head(citations)
         IN  IF citation.kind = "str" /\ citation.url \notin seen_urls
             THEN UniqueCitations(Tail(citations),
                                  Append(unique_citations, citation.url),
                                  seen_urls \cup {citation.url})
             ELSE IF citation.kind = "obj" /\ citation.url \notin seen_urls
             THEN UniqueCitations(Tail(citations),
                                  Append(unique_citations, citation.url),
                                  seen_urls \cup {citation.url})
             ELSE UniqueCitations(Tail(citations), unique_citations, seen_urls)

ReconcileCitationsForgetful(citations) == UniqueCitationsForgetful(citations, <<>>, {})

\* query_json lines 78-94
ReconcileCitations(citations) == UniqueCitations(citations, <<>>, {})

\* query_json line 91: url not in seen_urls raises TypeError for an unhashable url
ReconcileRaises(citations) ==
    \E i \in 1..Len(citations) : citations[i].kind = "obj" /\ citations[i].url = Arr

\* the values json_response["image_keywords"] can have: no such key, an empty
\* list, a list of keyword strings, a list with an entry that is not a string,
\* a number
KeywordKinds == {"absent", "empty", "list", "bad_list", "number"}

\* query_json line 97: the key is there and its value is truthy
WantsImages(keywords) == keywords \in {"list", "bad_list", "number"}

\* how search_images_for_keywords can return (image_search_service.py lines
\* 82-103, 32-36, 68-70), and line 102 of query_json
ImageOutcomes(keywords) ==
    IF ~WantsImages(keywords) THEN { [search |-> "skipped", urls |-> <<>>] }
    ELSE IF keywords = "list"
    THEN { [search |-> "found", urls |-> <<"I1">>],
           [search |-> "search_failed", urls |-> <<>>] }
    ELSE IF keywords = "bad_list"
    THEN { [search |-> "search_failed", urls |-> <<>>] }
    ELSE {}

\* the exceptions the image step lets through: the import at line 98 failing,
\* keywords[:2] at image_search_service.py line 89 on a value that has no slice
ImageErrors(keywords) ==
    IF ~WantsImages(keywords) THEN {}
    ELSE IF keywords = "number" THEN {"ImportError", "TypeError"}
    ELSE {"ImportError"}

\* rag_tool.py lines 33-54: result.get("error") decides what the agent is shown
ToolOutput(resp) == IF resp.error # NoError THEN "search_error" ELSE "answer"

InitQuery ==
    /\ q_pc = "start"
    /\ retrieved_docs = <<>>
    /\ llm_obj = NoObj
    /\ result = <<>>
    /\ json_response = NoObj
    /\ response = <<>>
    /\ parse_outcome = "none"
    /\ llm_calls = 0
    /\ store_queries = 0
    /\ tool_out = "none"
    /\ raw_answer = <<>>
    /\ answer_text = <<>>
    /\ x_pc = "idle"

PipelineFailureSilent(message) ==
    [success |-> FALSE, answer |-> PipelineErrorAnswer, error |-> NoError]

\* rag_pipeline.py lines 69-76: the except of query, error = str(e)
PipelineFailure(message) ==
    [success |-> FALSE, answer |-> PipelineErrorAnswer, error |-> message]

NoDocsNever(docs) == FALSE

\* rag_pipeline.py line 48: if not retrieved_docs
NoDocs(docs) == docs = <<>>

\* rag_pipeline.py line 46: the store answers with its points
RetrieveOk ==
    /\ q_pc = "start"
    /\ retrieved_docs' \in DocLists
    /\ store_queries' = store_queries + 1
    /\ q_pc' = "retrieved"
    /\ UNCHANGED <<llm_obj, result, json_response, response, parse_outcome,
                   llm_calls, tool_out>>
    /\ UNCHANGED <<ingestVars, extractVars, imageVars, laterVars>>

\* rag_pipeline.py lines 46, 69-76: retrieve_top_k raises
RetrieveFails ==
    /\ q_pc = "start"
    /\ store_queries' = store_queries + 1
    /\ result' = PipelineFailure("Retrieval failed")
    /\ q_pc' = "returned"
    /\ UNCHANGED <<retrieved_docs, llm_obj, json_response, response, parse_outcome,
                   llm_calls, tool_out>>
    /\ UNCHANGED <<ingestVars, extractVars, imageVars, laterVars>>

\* rag_pipeline.py lines 48-54: nothing was retrieved
NoDocuments ==
    /\ q_pc = "retrieved"
    /\ NoDocs(retrieved_docs)
    /\ result' = [success |-> FALSE, answer |-> NoMatchAnswer, error |-> NoError]
    /\ q_pc' = "returned"
    /\ UNCHANGED <<retrieved_docs, llm_obj, json_response, response, parse_outcome,
                   llm_calls, store_queries, tool_out>>
    /\ UNCHANGED <<ingestVars, extractVars, imageVars, laterVars>>

\* rag_pipeline.py lines 58-67: the LLM returns a text
GenerateOk ==
    /\ q_pc = "retrieved"
    /\ ~NoDocs(retrieved_docs)
    /\ \E t \in RawShapes :
        /\ raw_answer' = t
        /\ result' = [success |-> TRUE, answer |-> RawAnswer(t), error |-> NoError]
        /\ IF JsonLoadsOk(ExtractJSONText(t))
           THEN /\ \E m \in SUBSET (1..MaxMarker), s \in {0, 85} :
                    \/ \E n \in 0..MaxCites : \E c \in CitationLists(n) :
                            llm_obj' = LLMObject(m, TRUE, c, s)
                    \/ llm_obj' = LLMObject(m, FALSE, <<>>, s)
                /\ image_keywords' \in KeywordKinds
           ELSE /\ llm_obj' = NoObj
                /\ image_keywords' = "absent"
    /\ llm_calls' = llm_calls + 1
    /\ q_pc' = "returned"
    /\ UNCHANGED <<retrieved_docs, json_response, response, parse_outcome,
                   store_queries, tool_out>>
    /\ UNCHANGED <<ingestVars, answer_text, x_pc, image_search, image_urls, laterVars>>

\* rag_pipeline.py lines 58, 69-76: generate_answer raises
GenerateFails ==
    /\ q_pc = "retrieved"
    /\ ~NoDocs(retrieved_docs)
    /\ llm_calls' = llm_calls + 1
    /\ result' = PipelineFailure("Gemini generation failed")
    /\ q_pc' = "returned"
    /\ UNCHANGED <<retrieved_docs, llm_obj, json_response, response, parse_outcome,
                   store_queries, tool_out>>
    /\ UNCHANGED <<ingestVars, extractVars, imageVars, laterVars>>

\* query_json lines 32-39
ReturnFailure ==
    /\ q_pc = "returned"
    /\ ~result.success
    /\ response' = FailureResponse(result)
    /\ q_pc' = "done"
    /\ UNCHANGED <<retrieved_docs, llm_obj, result, json_response, parse_outcome,
                   llm_calls, store_queries, tool_out>>
    /\ UNCHANGED <<ingestVars, extractVars, imageVars, laterVars>>

\* query_json lines 44-73
Extract ==
    /\ q_pc = "returned"
    /\ result.success
    /\ answer_text' = ExtractJSONText(result.answer.text)
    /\ q_pc' = "extracted"
    /\ UNCHANGED <<retrieved_docs, llm_obj, result, json_response, response,
                   parse_outcome, llm_calls, store_queries, tool_out>>
    /\ UNCHANGED <<ingestVars, raw_answer, x_pc, imageVars, laterVars>>

\* query_json line 75: json.loads returns the object
ParseOk ==
    /\ q_pc = "extracted"
    /\ JsonLoadsOk(answer_text)
    /\ json_response' = llm_obj
    /\ parse_outcome' = "ok"
    /\ q_pc' = "parsed"
    /\ UNCHANGED <<retrieved_docs, llm_obj, result, response, llm_calls,
                   store_queries, tool_out>>
    /\ UNCHANGED <<ingestVars, extractVars, imageVars, laterVars>>

\* query_json lines 75, 105-113: json.loads raises JSONDecodeError
ParseFails ==
    /\ q_pc = "extracted"
    /\ ~JsonLoadsOk(answer_text)
    /\ response' = ParseFailureResponse(result)
    /\ parse_outcome' = "failed"
    /\ q_pc' = "done"
    /\ UNCHANGED <<retrieved_docs, llm_obj, result, json_response, llm_calls,
                   store_queries, tool_out>>
    /\ UNCHANGED <<ingestVars, extractVars, imageVars, laterVars>>

\* query_json lines 78-94, and lines 115-122 when the loop raises
Reconcile ==
    /\ q_pc = "parsed"
    /\ IF json_response.has_citations /\ ReconcileRaises(json_response.citations)
       THEN /\ response' = ExceptionResponse("TypeError")
            /\ q_pc' = "done"
            /\ UNCHANGED json_response
       ELSE /\ json_response' =
                IF json_response.has_citations
                THEN [json_response EXCEPT
                        !.citations = ReconcileCitations(json_response.citations)]
                ELSE json_response
            /\ q_pc' = "reconciled"
            /\ UNCHANGED response
    /\ UNCHANGED <<retrieved_docs, llm_obj, result, parse_outcome, llm_calls,
                   store_queries, tool_out>>
    /\ UNCHANGED <<ingestVars, extractVars, imageVars, laterVars>>

\* query_json lines 96-104: the image step ends without raising
ReturnAnswer ==
    /\ q_pc = "reconciled"
    /\ \E o \in ImageOutcomes(image_keywords) :
        /\ image_search' = o.search
        /\ image_urls' = o.urls
    /\ response' = [answer |-> LLMMarkdown(json_response.markers),
                    has_citations |-> json_response.has_citations,
                    citations |-> json_response.citations,
                    confidence |-> json_response.confidence,
                    error |-> NoError]
    /\ q_pc' = "done"
    /\ UNCHANGED <<retrieved_docs, llm_obj, result, json_response, parse_outcome,
                   llm_calls, store_queries, tool_out, image_keywords>>
    /\ UNCHANGED <<ingestVars, extractVars, laterVars>>

\* query_json lines 97-99 and 115-122: the import of image_search_service or
\* the call of search_images_for_keywords raises
ImageStepRaises ==
    /\ q_pc = "reconciled"
    /\ \E e \in ImageErrors(image_keywords) : response' = ExceptionResponse(e)
    /\ image_search' = "raised"
    /\ q_pc' = "done"
    /\ UNCHANGED <<retrieved_docs, llm_obj, result, json_response, parse_outcome,
                   llm_calls, store_queries, tool_out, image_keywords, image_urls>>
    /\ UNCHANGED <<ingestVars, extractVars, laterVars>>

\* rag_tool.py lines 29-57: the agent's search tool presents the response
RunTool ==
    /\ q_pc = "done"
    /\ tool_out' = ToolOutput(response)
    /\ q_pc' = "tool_done"
    /\ UNCHANGED <<retrieved_docs, llm_obj, result, json_response, response,
                   parse_outcome, llm_calls, store_queries>>
    /\ UNCHANGED <<ingestVars, extractVars, imageVars, laterVars>>

NextQuery ==
    \/ RetrieveOk
    \/ RetrieveFails
    \/ NoDocuments
    \/ GenerateOk
    \/ GenerateFails
    \/ ReturnFailure
    \/ Extract
    \/ ParseOk
    \/ ParseFails
    \/ Reconcile
    \/ ReturnAnswer
    \/ ImageStepRaises
    \/ RunTool

\* one question alone: no ingestion runs
QueryInit ==
    /\ InitQuery /\ IngestIdle /\ ImageIdle
    /\ ServiceIdle /\ RetrieveIdle /\ IdentityIdle /\ CollectionIdle /\ ChatIdle /\ TailIdle

SpecQuery == QueryInit /\ [][NextQuery]_vars

(***************************************************************************)
(* The answer services: RAGService.generate_answer and                     *)
(* AgentService.generate_answer with their fallbacks                       *)
(***************************************************************************)
\* models.py lines 20-26: RAGResponse(answer_markdown, citations, ..., confidence_score)
RAGResponse(answer, citations, confidence) ==
    [answer_markdown |-> answer, citations |-> citations, confidence_score |-> confidence]

\* agent_service.py lines 140-187: the cleaned final answer of the agent
AgentAnswer == [kind |-> "agent", markers |-> {}, text |-> <<>>]
\* rag_service.py lines 88-89: the text the bare LLM returned
DirectAnswer == [kind |-> "direct", markers |-> {}, text |-> <<>>]
\* rag_service.py line 102, agent_service.py line 222
ApologyAnswer == [kind |-> "apology", markers |-> {}, text |-> <<>>]

\* models.py line 23: citations: List[str] rejects an entry that is not a string
ValidRAGResponse(resp) ==
    \A i \in 1..Len(resp.citations) : resp.citations[i] \notin {Null, Arr}

\* rag_service.py lines 44-60, agent_service.py lines 202-217: the result of
\* query_rag_json as a RAGResponse (its error key is not read)
ToRAGResponse(resp) == RAGResponse(resp.answer, resp.citations, resp.confidence)

OnRaiseUncaught(service, step) ==
    IF service = "rag_service"
    THEN (IF step = "query" THEN "direct" ELSE "raised")
    ELSE (IF step = "agent" THEN "in_query" ELSE "apology")

\* where control goes when a step of generate_answer raises: the except
\* clauses at rag_service.py lines 62-65 and 99-106, agent_service.py lines
\* 189-192 and 219-227
OnRaise(service, step) ==
    IF service = "rag_service"
    THEN (IF step = "query" THEN "direct" ELSE "apology")
    ELSE (IF step = "agent" THEN "in_query" ELSE "apology")

InitService ==
    /\ svc \in {"rag_service", "agent_service"}
    /\ s_pc = "start"
    /\ svc_response = <<>>
    /\ svc_path = "none"
    /\ direct_calls = 0

\* rag_service.py line 42: generate_answer calls query_rag_json
CallQueryRagJson ==
    /\ svc = "rag_service"
    /\ s_pc = "start"
    /\ s_pc' = "in_query"
    /\ UNCHANGED <<svc, svc_response, svc_path, direct_calls>>
    /\ UNCHANGED <<ingestVars, extractVars, queryVars, imageVars,
                   retrieveVars, identityVars, collectionVars, chatVars, tailVars>>

\* agent_service.py lines 134-187: the agent executor returns its output
AgentAnswers ==
    /\ svc = "agent_service"
    /\ s_pc = "start"
    /\ \E c \in {<<>>, <<"U1">>} : svc_response' = RAGResponse(AgentAnswer, c, 85)
    /\ svc_path' = "agent"
    /\ s_pc' = "done"
    /\ UNCHANGED <<svc, direct_calls>>
    /\ UNCHANGED <<ingestVars, extractVars, queryVars, imageVars,
                   retrieveVars, identityVars, collectionVars, chatVars, tailVars>>

\* agent_service.py lines 134, 189-192, 200: the agent executor raises and
\* _fallback_to_rag calls query_rag_json
AgentFails ==
    /\ svc = "agent_service"
    /\ s_pc = "start"
    /\ s_pc' = OnRaise(svc, "agent")
    /\ UNCHANGED <<svc, svc_response, svc_path, direct_calls>>
    /\ UNCHANGED <<ingestVars, extractVars, queryVars, imageVars,
                   retrieveVars, identityVars, collectionVars, chatVars, tailVars>>

\* api.py line 223: RAGAPI(collection_name) raises (retrieval_client.py line 26,
\* an unreachable store, a missing API key)
ConstructFails ==
    /\ s_pc = "in_query"
    /\ q_pc = "start"
    /\ q_pc' = "raised"
    /\ s_pc' = OnRaise(svc, "query")
    /\ UNCHANGED <<retrieved_docs, llm_obj, result, json_response, response,
                   parse_outcome, llm_calls, store_queries, tool_out>>
    /\ UNCHANGED <<svc, svc_response, svc_path, direct_calls>>
    /\ UNCHANGED <<ingestVars, extractVars, imageVars,
                   retrieveVars, identityVars, collectionVars, chatVars, tailVars>>

\* rag_service.py lines 44-60, agent_service.py lines 202-217
ConvertOk ==
    /\ s_pc = "in_query"
    /\ q_pc = "done"
    /\ ValidRAGResponse(response)
    /\ svc_response' = ToRAGResponse(response)
    /\ svc_path' = "pipeline"
    /\ s_pc' = "done"
    /\ UNCHANGED <<svc, direct_calls>>
    /\ UNCHANGED <<ingestVars, extractVars, queryVars, imageVars,
                   retrieveVars, identityVars, collectionVars, chatVars, tailVars>>

\* rag_service.py lines 55-65, agent_service.py lines 211-219: RAGResponse
\* rejects the result
ConvertRaises ==
    /\ s_pc = "in_query"
    /\ q_pc = "done"
    /\ ~ValidRAGResponse(response)
    /\ s_pc' = OnRaise(svc, "query")
    /\ UNCHANGED <<svc, svc_response, svc_path, direct_calls>>
    /\ UNCHANGED <<ingestVars, extractVars, queryVars, imageVars,
                   retrieveVars, identityVars, collectionVars, chatVars, tailVars>>

\* rag_service.py lines 67-97: _generate_fallback_response, the bare LLM answers
DirectOk ==
    /\ s_pc = "direct"
    /\ direct_calls' = direct_calls + 1
    /\ svc_response' = RAGResponse(DirectAnswer, <<>>, 0)
    /\ svc_path' = "direct"
    /\ s_pc' = "done"
    /\ UNCHANGED svc
    /\ UNCHANGED <<ingestVars, extractVars, queryVars, imageVars,
                   retrieveVars, identityVars, collectionVars, chatVars, tailVars>>

\* rag_service.py lines 88, 99: llm.invoke raises
DirectFails ==
    /\ s_pc = "direct"
    /\ direct_calls' = direct_calls + 1
    /\ s_pc' = OnRaise(svc, "direct")
    /\ UNCHANGED <<svc, svc_response, svc_path>>
    /\ UNCHANGED <<ingestVars, extractVars, queryVars, imageVars,
                   retrieveVars, identityVars, collectionVars, chatVars, tailVars>>

\* rag_service.py lines 99-106, agent_service.py lines 219-227
Apology ==
    /\ s_pc = "apology"
    /\ svc_response' = RAGResponse(ApologyAnswer, <<>>, 0)
    /\ svc_path' = "apology"
    /\ s_pc' = "done"
    /\ UNCHANGED <<svc, direct_calls>>
    /\ UNCHANGED <<ingestVars, extractVars, queryVars, imageVars,
                   retrieveVars, identityVars, collectionVars, chatVars, tailVars>>

\* the steps of query_rag_json while a service waits for it
QueryRagJson ==
    /\ s_pc = "in_query"
    /\ \/ RetrieveOk
       \/ RetrieveFails
       \/ NoDocuments
       \/ GenerateOk
       \/ GenerateFails
       \/ ReturnFailure
       \/ Extract
       \/ ParseOk
       \/ ParseFails
       \/ Reconcile
       \/ ReturnAnswer
       \/ ImageStepRaises

NextService ==
    \/ CallQueryRagJson
    \/ AgentAnswers
    \/ AgentFails
    \/ ConstructFails
    \/ QueryRagJson
    \/ ConvertOk
    \/ ConvertRaises
    \/ DirectOk
    \/ DirectFails
    \/ Apology

\* a service answering one question
ServiceInit ==
    /\ InitService /\ InitQuery /\ IngestIdle /\ ImageIdle
    /\ RetrieveIdle /\ IdentityIdle /\ CollectionIdle /\ ChatIdle /\ TailIdle

SpecService == ServiceInit /\ [][NextService]_vars

(***************************************************************************)
(* Retrieval: RetrievalClient.retrieve_top_k, the store's hybrid query,    *)
(* RAGPipeline's retrieval width, GET /api/search                          *)
(***************************************************************************)
PointIds == 1..MaxPoints
IsInjective(q) == \A i, j \in 1..Len(q) : q[i] = q[j] => i = j
\* a ranking of some of the points, best first
RankLists == { q \in SeqsUpTo(PointIds, MaxPoints) : IsInjective(q) }
RangeOf(q) == { q[i] : i \in 1..Len(q) }

\* chunks as parse_csv_sentences writes them: a paragraph with a body of two
\* lines, and a table without rows
ParserChunks ==
    << [kind |-> "paragraph", header |-> "path", prov |-> "prov", body |-> <<"body", "more">>],
       [kind |-> "table", header |-> "path", prov |-> "prov", body |-> <<>>] >>

\* the text field of a chunk, as its lines: header, provenance and body; a
\* table without rows gets no third line, an empty caption an empty one
text_field(chunk) ==
    IF chunk.body # <<>> THEN <<chunk.header, chunk.prov>> \o chunk.body
    ELSE IF chunk.kind = "table" THEN <<chunk.header, chunk.prov>>
    ELSE <<chunk.header, chunk.prov, "">>

\* the payloads stored with the points: the two parser chunks, no payload at
\* all, and a one-line text without a section written by another tool
NoPayload == [none |-> TRUE]
StoredPayloads ==
    << [text |-> text_field(ParserChunks[1]), section |-> "Results"],
       NoPayload,
       [text |-> text_field(ParserChunks[2]), section |-> "Results"],
       [text |-> <<"body">>, section |-> Missing] >>
PayloadOfPoint(id) == StoredPayloads[((id - 1) % Len(StoredPayloads)) + 1]

\* the rank of p in a list, 0 when it is absent
RankIn(list, p) == IF p \in RangeOf(list) THEN CHOOSE i \in 1..Len(list) : list[i] = p ELSE 0

RECURSIVE ProductTo(_)
ProductTo(n) == IF n = 0 THEN 1 ELSE (RRFk + n) * ProductTo(n - 1)
\* scores are kept as integers: 1/(k + rank) times ScoreScale
ScoreScale == ProductTo(MaxPoints)

ContributionFlat(list, p) == IF RankIn(list, p) = 0 THEN 0 ELSE ScoreScale \div (RRFk + 1)

\* 1/(k + rank) for a candidate of the list, nothing for an absent one
Contribution(list, p) ==
    IF RankIn(list, p) = 0 THEN 0 ELSE ScoreScale \div (RRFk + RankIn(list, p))

\* the fused score: the sum over the dense and the sparse list
RRFScore(dense, sparse, p) == Contribution(dense, p) + Contribution(sparse, p)

\* the fused results: every candidate once, by fused score descending, ties in
\* any order
FusedOrders(dense, sparse) ==
    { o \in RankLists :
        /\ RangeOf(o) = RangeOf(dense) \cup RangeOf(sparse)
        /\ \A i, j \in 1..Len(o) :
            i < j => RRFScore(dense, sparse, o[i]) >= RRFScore(dense, sparse, o[j]) }

\* resp.points for query_points(..., limit=k, with_payload=True)
StoreAnswers(dense, sparse, limit) ==
    { [i \in 1..Min(limit, Len(o)) |->
          [id |-> o[i], score |-> RRFScore(dense, sparse, o[i]),
           payload |-> PayloadOfPoint(o[i])]] : o \in FusedOrders(dense, sparse) }

\* retrieve_top_k line 73: (payload.get("text") or "").split("\n", 2)[-1], a
\* text being its sequence of lines
LastOfSplit(lines) ==
    IF Len(lines) <= 2 THEN (IF lines = <<>> THEN <<>> ELSE <<lines[Len(lines)]>>)
    ELSE SubSeq(lines, 3, Len(lines))

\* retrieve_top_k lines 72-81: one result for a point
FormatPoint(point) ==
    IF point.payload = NoPayload
    THEN [id |-> point.id, score |-> point.score, text |-> <<>>,
          section |-> "Unknown", full_payload |-> <<>>]
    ELSE [id |-> point.id, score |-> point.score,
          text |-> LastOfSplit(point.payload.text),
          section |-> IF point.payload.section = Missing THEN "Unknown"
                      ELSE point.payload.section,
          full_payload |-> point.payload]

RECURSIVE FormatResultsWithPayload(_)
FormatResultsWithPayload(points) ==
    IF points = <<>> THEN <<>>
    ELSE IF Head(points).payload = NoPayload THEN FormatResultsWithPayload(Tail(points))
    ELSE <<FormatPoint(Head(points))>> \o FormatResultsWithPayload(Tail(points))

\* retrieve_top_k lines 70-83: the loop over resp.points
FormatResults(points) == [i \in 1..Len(points) |-> FormatPoint(points[i])]

PipelineTopKGiven(given) == given

\* RAGPipeline.__init__ line 31: the top_k argument is ignored
PipelineTopK(given) == FixedTopK

\* the top_k arguments a caller passes to RAGPipeline(...) or to /api/search
TopKArgs == {1, 10, FixedTopK}

NoCall == [via |-> "none", limit |-> 0, store |-> "none", outcome |-> "none"]

InitRetrieve ==
    /\ r_pc = "start"
    /\ top_k = 0
    /\ dense_rank \in RankLists
    /\ sparse_rank \in RankLists
    /\ asked = {}
    /\ r_points = <<>>
    /\ r_results = <<>>
    /\ r_status = NoCall

\* RAGPipeline.__init__ lines 29-32
Construct ==
    /\ r_pc = "start"
    /\ \E given \in TopKArgs : top_k' = PipelineTopK(given)
    /\ r_pc' = "ready"
    /\ UNCHANGED <<dense_rank, sparse_rank, asked, r_points, r_results, r_status>>
    /\ UNCHANGED <<ingestVars, extractVars, queryVars, imageVars,
                   serviceVars, identityVars, collectionVars, chatVars, tailVars>>

\* retrieve_top_k lines 50-83: the store answers and the points are formatted
RetrieveReturns(via, limit) ==
    /\ \E points \in StoreAnswers(dense_rank, sparse_rank, limit) :
        /\ r_points' = points
        /\ r_results' = FormatResults(points)
    /\ r_status' = [via |-> via, limit |-> limit, store |-> "ok", outcome |-> "returned"]

\* retrieve_top_k lines 52, 85-86: query_points raises
RetrieveRaises(via, limit) ==
    /\ r_points' = <<>>
    /\ r_results' = <<>>
    /\ r_status' = [via |-> via, limit |-> limit, store |-> "failed", outcome |-> "raised"]

\* RAGPipeline.query line 46
PipelineRetrieve ==
    /\ r_pc = "ready"
    /\ asked' = asked \cup {top_k}
    /\ \/ RetrieveReturns("query", top_k)
       \/ RetrieveRaises("query", top_k)
    /\ r_pc' = "called"
    /\ UNCHANGED <<top_k, dense_rank, sparse_rank>>
    /\ UNCHANGED <<ingestVars, extractVars, queryVars, imageVars,
                   serviceVars, identityVars, collectionVars, chatVars, tailVars>>

\* RAGPipeline.get_retrieval_only line 88
GetRetrievalOnly ==
    /\ r_pc = "ready"
    /\ asked' = asked \cup {top_k}
    /\ \/ RetrieveReturns("get_retrieval_only", top_k)
       \/ RetrieveRaises("get_retrieval_only", top_k)
    /\ r_pc' = "called"
    /\ UNCHANGED <<top_k, dense_rank, sparse_rank>>
    /\ UNCHANGED <<ingestVars, extractVars, queryVars, imageVars,
                   serviceVars, identityVars, collectionVars, chatVars, tailVars>>

\* main.py lines 137, 146-147: get_retrieval_only(query, top_k) has one
\* parameter too many, the TypeError becomes HTTP 500 and no retrieval is made
SearchEndpoint ==
    /\ r_pc = "ready"
    /\ \E given \in TopKArgs :
        r_status' = [via |-> "search", limit |-> given, store |-> "none",
                     outcome |-> "http_500"]
    /\ r_points' = <<>>
    /\ r_results' = <<>>
    /\ r_pc' = "called"
    /\ UNCHANGED <<top_k, dense_rank, sparse_rank, asked>>
    /\ UNCHANGED <<ingestVars, extractVars, queryVars, imageVars,
                   serviceVars, identityVars, collectionVars, chatVars, tailVars>>

\* retrieve_top_k called with a k of the caller's (get_context_chunks line 99)
RetrieveTopK ==
    /\ r_pc = "ready"
    /\ \E k \in 1..MaxK :
        \/ RetrieveReturns("retrieve_top_k", k)
        \/ RetrieveRaises("retrieve_top_k", k)
    /\ r_pc' = "called"
    /\ UNCHANGED <<top_k, dense_rank, sparse_rank, asked>>
    /\ UNCHANGED <<ingestVars, extractVars, queryVars, imageVars,
                   serviceVars, identityVars, collectionVars, chatVars, tailVars>>

\* the caller has taken the result or the error; the next request may come
NextRequest ==
    /\ r_pc = "called"
    /\ r_pc' = "ready"
    /\ r_points' = <<>>
    /\ r_results' = <<>>
    /\ r_status' = NoCall
    /\ UNCHANGED <<top_k, dense_rank, sparse_rank, asked>>
    /\ UNCHANGED <<ingestVars, extractVars, queryVars, imageVars,
                   serviceVars, identityVars, collectionVars, chatVars, tailVars>>

NextRetrieve ==
    \/ Construct
    \/ NextRequest
    \/ PipelineRetrieve
    \/ GetRetrievalOnly
    \/ SearchEndpoint
    \/ RetrieveTopK

RetrievalInit ==
    /\ InitRetrieve /\ IngestIdle /\ ExtractIdle /\ QueryIdle /\ ImageIdle
    /\ ServiceIdle /\ IdentityIdle /\ CollectionIdle /\ ChatIdle /\ TailIdle

SpecRetrieve == RetrievalInit /\ [][NextRetrieve]_vars

(***************************************************************************)
(* Chunk identity: make_id of parse_csv_sentences                          *)
(***************************************************************************)
\* the characters of a string: a letter, a line break, and the " — " that
\* separates the title from the section in a header
IdChars == {"a", "nl", "sep"}
IdStrings == SeqsUpTo(IdChars, MaxField)
\* pmcid is "PMC" and the article's number, or empty
Pmcids == {<<>>, <<"a">>}
IdTriples == [pmcid : Pmcids, section_path : IdStrings, text : IdStrings]

\* header.split(" — ", 1)[1] if " — " in header else header
make_section(header) ==
    IF \E i \in 1..Len(header) : header[i] = "sep"
    THEN LET i == CHOOSE k \in 1..Len(header) :
                      header[k] = "sep" /\ \A j \in 1..(k - 1) : header[j] # "sep"
         IN SubSeq(header, i + 1, Len(header))
    ELSE header

\* ch.lower() if ch.isalnum() else "-"
SlugChar(ch) == IF ch = "a" THEN "a" ELSE "-"

RECURSIVE StripDashes(_)
\* .strip("-")
StripDashes(q) ==
    IF q = <<>> THEN q
    ELSE IF Head(q) = "-" THEN StripDashes(Tail(q))
    ELSE IF q[Len(q)] = "-" THEN StripDashes(SubSeq(q, 1, Len(q) - 1))
    ELSE q

\* the text the digest is taken of: f"{pmcid_val}\n{section_path}\n{text_val}"
Basis(section_path, pmcid_val, text_val) ==
    pmcid_val \o <<"nl">> \o section_path \o <<"nl">> \o text_val

\* sha1(basis).hexdigest()[:8], taken as free of collisions: different texts
\* have different digests
Digest(basis) == <<"sha1", basis>>

\* make_id lines 133-139: f"{pmcid_val}:{sec_slug}:{h}"
make_id(section_path, pmcid_val, text_val) ==
    LET sec == make_section(section_path)
        sec_slug == StripDashes([i \in 1..Len(sec) |-> SlugChar(sec[i])])
    IN [pmcid |-> pmcid_val, sec_slug |-> sec_slug,
        h |-> Digest(Basis(section_path, pmcid_val, text_val))]

InitIdentity ==
    /\ id_a \in IdTriples
    /\ id_b = <<>>
    /\ id_out = <<>>
    /\ id_pc = "start"

\* the IDs of two chunks are made
MakeIds ==
    /\ id_pc = "start"
    /\ \E b \in IdTriples :
        /\ id_b' = b
        /\ id_out' = << make_id(id_a.section_path, id_a.pmcid, id_a.text),
                        make_id(b.section_path, b.pmcid, b.text) >>
    /\ id_pc' = "done"
    /\ UNCHANGED id_a
    /\ UNCHANGED <<ingestVars, extractVars, queryVars, imageVars,
                   serviceVars, retrieveVars, collectionVars, chatVars, tailVars>>

NextIdentity == MakeIds

IdentityInit ==
    /\ InitIdentity /\ IngestIdle /\ ExtractIdle /\ QueryIdle /\ ImageIdle
    /\ ServiceIdle /\ RetrieveIdle /\ CollectionIdle /\ ChatIdle /\ TailIdle

SpecIdentity == IdentityInit /\ [][NextIdentity]_vars

(***************************************************************************)
(* Collections: ensure_collection                                          *)
(***************************************************************************)
\* cfg.collection, and another collection of the same store
TargetName == "nasa"
CollectionNames == {TargetName, "other"}
\* the vector configuration ensure_collection asks for, and a different one
\* an existing collection may have
WantedConfig == "dense_and_sparse"
CollectionConfigs == {WantedConfig, "older"}

\* the stores ensure_collection may meet: each name at most once
CollectionStores ==
    { st \in SUBSET [name : CollectionNames, config : CollectionConfigs] :
        \A a, b \in st : a.name = b.name => a = b }

ExistsNever(name, st) == FALSE

\* lines 37-38: cfg.collection in [c.name for c in get_collections().collections]
Exists(name, st) == \E c \in st : c.name = name

InitCollection ==
    /\ collections \in CollectionStores
    /\ create_requests = 0
    /\ ensure_calls = 0
    /\ c_last = "none"

\* lines 37-39: the collection is listed, return
EnsureFound ==
    /\ ensure_calls < MaxEnsure
    /\ Exists(TargetName, collections)
    /\ ensure_calls' = ensure_calls + 1
    /\ c_last' = "found"
    /\ UNCHANGED <<collections, create_requests>>
    /\ UNCHANGED <<ingestVars, extractVars, queryVars, imageVars,
                   serviceVars, retrieveVars, identityVars, chatVars, tailVars>>

\* lines 40-48: the collection is not listed, create_collection succeeds
EnsureCreates ==
    /\ ensure_calls < MaxEnsure
    /\ ~Exists(TargetName, collections)
    /\ ensure_calls' = ensure_calls + 1
    /\ create_requests' = create_requests + 1
    /\ collections' = collections \cup {[name |-> TargetName, config |-> WantedConfig]}
    /\ c_last' = "created"
    /\ UNCHANGED <<ingestVars, extractVars, queryVars, imageVars,
                   serviceVars, retrieveVars, identityVars, chatVars, tailVars>>

\* lines 40-48: create_collection raises; the request was refused, or it was
\* carried out and only its answer was lost
EnsureCreateFails ==
    /\ ensure_calls < MaxEnsure
    /\ ~Exists(TargetName, collections)
    /\ ensure_calls' = ensure_calls + 1
    /\ create_requests' = create_requests + 1
    /\ \/ UNCHANGED collections
       \/ collections' = collections \cup {[name |-> TargetName, config |-> WantedConfig]}
    /\ c_last' = "create_raised"
    /\ UNCHANGED <<ingestVars, extractVars, queryVars, imageVars,
                   serviceVars, retrieveVars, identityVars, chatVars, tailVars>>

\* line 37: get_collections raises, nothing is requested
EnsureListFails ==
    /\ ensure_calls < MaxEnsure
    /\ ensure_calls' = ensure_calls + 1
    /\ c_last' = "list_raised"
    /\ UNCHANGED <<collections, create_requests>>
    /\ UNCHANGED <<ingestVars, extractVars, queryVars, imageVars,
                   serviceVars, retrieveVars, identityVars, chatVars, tailVars>>

NextCollection ==
    \/ EnsureFound
    \/ EnsureCreates
    \/ EnsureCreateFails
    \/ EnsureListFails

CollectionInit ==
    /\ InitCollection /\ IngestIdle /\ ExtractIdle /\ QueryIdle /\ ImageIdle
    /\ ServiceIdle /\ RetrieveIdle /\ IdentityIdle /\ ChatIdle /\ TailIdle

SpecCollection == CollectionInit /\ [][NextCollection]_vars

(***************************************************************************)
(* Chat sessions: POST /chat, DELETE /session/{id}, SessionManager         *)
(***************************************************************************)
\* the ids uuid4 hands out, each once, in this order
FreshIds == <<"s1", "s2">>
NoSessionId == "<none>"
\* request.session_id: absent, or any id, live or not
RequestIds == {NoSessionId} \cup RangeOf(FreshIds)
UserMessages == {"q1", "q2"}
\* answer_markdown of the response generate_answer returns
AnswerTexts == {"answer", "apology"}

\* ChatMessage(role=..., content=...)
ChatMessage(role, content) == [role |-> role, content |-> content]

\* SessionManager.add_message lines 34-46
add_message(messages, role, content) == Append(messages, ChatMessage(role, content))

\* SessionManager.get_conversation_history lines 48-58: (role, content) tuples
get_conversation_history(messages) ==
    [i \in 1..Len(messages) |-> <<messages[i].role, messages[i].content>>]

HistoryTakenLate(before, with_user) == get_conversation_history(with_user)

\* chat_endpoint lines 42-45: the history is taken before the user message
\* is added
HistoryTaken(before, with_user) == get_conversation_history(before)

InitChat ==
    /\ sessions = <<>>
    /\ ids_used = 0
    /\ handed = <<>>
    /\ chat_log = <<>>
    /\ last_chat = [request |-> NoSessionId, existed |-> FALSE, session |-> NoSessionId,
                    message |-> "", answer |-> ""]

\* chat_endpoint lines 34-68: one request, from the session lookup to the
\* response; the handler has no await and generate_answer returns a response
\* on every path, so nothing of another request runs in between
Chat ==
    \E request \in RequestIds, message \in UserMessages, answer \in AnswerTexts :
        LET found == request # NoSessionId /\ request \in DOMAIN sessions
            session_id == IF found THEN request ELSE FreshIds[ids_used + 1]
            before == IF found THEN sessions[session_id] ELSE <<>>
            with_user == add_message(before, "user", message)
            after == add_message(with_user, "assistant", answer)
            turns == IF found THEN chat_log[session_id] ELSE <<>>
        IN  /\ found \/ ids_used < Len(FreshIds)
            /\ Len(before) < 2 * MaxTurns
            /\ ids_used' = IF found THEN ids_used ELSE ids_used + 1
            /\ handed' = HistoryTaken(before, with_user)
            /\ sessions' = [sid \in DOMAIN sessions \cup {session_id} |->
                               IF sid = session_id THEN after ELSE sessions[sid]]
            /\ chat_log' = [sid \in DOMAIN chat_log \cup {session_id} |->
                               IF sid = session_id
                               THEN Append(turns, [user |-> message, assistant |-> answer])
                               ELSE chat_log[sid]]
            /\ last_chat' = [request |-> request, existed |-> request \in DOMAIN chat_log,
                             session |-> session_id, message |-> message,
                             answer |-> answer]
            /\ UNCHANGED <<ingestVars, extractVars, queryVars, imageVars,
                           serviceVars, retrieveVars, identityVars, collectionVars, tailVars>>

\* delete_session lines 67-72
DeleteSession ==
    \E sid \in DOMAIN sessions :
        /\ sessions' = [x \in DOMAIN sessions \ {sid} |-> sessions[x]]
        /\ chat_log' = [x \in DOMAIN chat_log \ {sid} |-> chat_log[x]]
        /\ UNCHANGED <<ids_used, handed, last_chat>>
        /\ UNCHANGED <<ingestVars, extractVars, queryVars, imageVars,
                       serviceVars, retrieveVars, identityVars, collectionVars, tailVars>>

NextChat ==
    \/ Chat
    \/ DeleteSession

ChatInit ==
    /\ InitChat /\ IngestIdle /\ ExtractIdle /\ QueryIdle /\ ImageIdle
    /\ ServiceIdle /\ RetrieveIdle /\ IdentityIdle /\ CollectionIdle /\ TailIdle

SpecChat == ChatInit /\ [][NextChat]_vars

(***************************************************************************)
(* Stored threads: POST /answer (src/space_bio/backend)                    *)
(***************************************************************************)
\* the concurrent POST /answer requests made on the thread
Requests == 1..MaxRequests
\* request.q
Questions == {"q1", "q2"}
\* response.content of llm.invoke
Replies == {"reply"}

\* models.Message: a row of the messages table; turn is the request that made it
Message(turn, role, content, at) ==
    [turn |-> turn, role |-> role, content |-> content, created_at |-> at]

\* Message.created_at: default=datetime.utcnow, evaluated when the row is inserted
utcnow(clock) == clock + 1

\* order_by(Message.created_at.asc()) of get_history and of Thread.messages
RECURSIVE OrderByCreatedAt(_)
OrderByCreatedAt(rows) ==
    IF rows = {} THEN <<>>
    ELSE LET first == CHOOSE m \in rows : \A n \in rows : m.created_at <= n.created_at
         IN  <<first>> \o OrderByCreatedAt(rows \ {first})

\* what a select of the session sees: the committed rows and the rows of its own
\* transaction (the engine of db.py is PostgreSQL, read committed)
VisibleTo(committed, own) == committed \cup RangeOf(own)

\* build_system_prompt
SystemMessage == [type |-> "system", content |-> "prompt"]
HumanMessage(content) == [type |-> "human", content |-> content]
AIMessage(content) == [type |-> "ai", content |-> content]

\* run_chat_turn lines 104-115: the system prompt, the history, the question
RECURSIVE HistoryMessages(_)
HistoryMessages(history) ==
    IF history = <<>> THEN <<>>
    ELSE LET m == Head(history)
         IN  (IF m.role = "user" THEN <<HumanMessage(m.content)>>
              ELSE IF m.role = "assistant" THEN <<AIMessage(m.content)>>
              ELSE <<>>) \o HistoryMessages(Tail(history))

LLMMessages(history, question) ==
    <<SystemMessage>> \o HistoryMessages(history) \o <<HumanMessage(question)>>

\* get_session lines 58-63: rollback and close discard the rows of the transaction
RolledBackKept(committed, own) == committed \cup RangeOf(own)
RolledBack(committed, own) == committed

InitAnswer ==
    /\ a_thread = FALSE
    /\ a_pc = [r \in Requests |-> "idle"]
    /\ a_q = [r \in Requests |-> "none"]
    /\ a_session = [r \in Requests |-> <<>>]
    /\ a_history = [r \in Requests |-> <<>>]
    /\ a_sent = [r \in Requests |-> <<>>]
    /\ a_reply = [r \in Requests |-> "none"]
    /\ db_messages = {}
    /\ a_clock = 0

\* create_thread (POST /thread) lines 28-61: the thread row is committed
CreateThread ==
    /\ a_thread = FALSE
    /\ a_thread' = TRUE
    /\ UNCHANGED <<a_pc, a_q, a_session, a_history, a_sent, a_reply, db_messages, a_clock>>
    /\ UNCHANGED <<ingestVars, extractVars, queryVars, imageVars, serviceVars,
                   retrieveVars, identityVars, collectionVars, chatVars, thread_response>>

\* generate_answer lines 169-178: no thread row, 404
ThreadMissing(r, q) ==
    /\ a_pc[r] = "idle"
    /\ ~a_thread
    /\ a_pc' = [a_pc EXCEPT ![r] = "missing"]
    /\ a_q' = [a_q EXCEPT ![r] = q]
    /\ UNCHANGED <<a_thread, a_session, a_history, a_sent, a_reply, db_messages, a_clock>>
    /\ UNCHANGED <<ingestVars, extractVars, queryVars, imageVars, serviceVars,
                   retrieveVars, identityVars, collectionVars, chatVars, thread_response>>

\* generate_answer lines 169-188: the thread is found, session.add(user_message);
\* the row is pending in the session, nothing is inserted yet
AddUserMessage(r, q) ==
    /\ a_pc[r] = "idle"
    /\ a_thread
    /\ a_pc' = [a_pc EXCEPT ![r] = "added"]
    /\ a_q' = [a_q EXCEPT ![r] = q]
    /\ UNCHANGED <<a_thread, a_session, a_history, a_sent, a_reply, db_messages, a_clock>>
    /\ UNCHANGED <<ingestVars, extractVars, queryVars, imageVars, serviceVars,
                   retrieveVars, identityVars, collectionVars, chatVars, thread_response>>

\* run_chat_turn lines 97-115 with get_history lines 44-58: session.execute
\* flushes the pending user message first (autoflush=True, db.py line 44), then
\* selects the rows of the thread; the messages list is built from them
ReadHistory(r) ==
    /\ a_pc[r] = "added"
    /\ LET user_message == Message(r, "user", a_q[r], utcnow(a_clock))
           own == Append(a_session[r], user_message)
           history == OrderByCreatedAt(VisibleTo(db_messages, own))
       IN  /\ a_session' = [a_session EXCEPT ![r] = own]
           /\ a_history' = [a_history EXCEPT ![r] = history]
           /\ a_sent' = [a_sent EXCEPT ![r] = LLMMessages(history, a_q[r])]
    /\ a_clock' = utcnow(a_clock)
    /\ a_pc' = [a_pc EXCEPT ![r] = "asked"]
    /\ UNCHANGED <<a_thread, a_q, a_reply, db_messages>>
    /\ UNCHANGED <<ingestVars, extractVars, queryVars, imageVars, serviceVars,
                   retrieveVars, identityVars, collectionVars, chatVars, thread_response>>

\* get_history lines 59-62: the statement fails, the history is empty; the
\* transaction of the session is aborted, so that its commit cannot succeed
HistoryFails(r) ==
    /\ a_pc[r] = "added"
    /\ a_sent' = [a_sent EXCEPT ![r] = LLMMessages(<<>>, a_q[r])]
    /\ a_pc' = [a_pc EXCEPT ![r] = "asked_aborted"]
    /\ UNCHANGED <<a_thread, a_q, a_session, a_history, a_reply, db_messages, a_clock>>
    /\ UNCHANGED <<ingestVars, extractVars, queryVars, imageVars, serviceVars,
                   retrieveVars, identityVars, collectionVars, chatVars, thread_response>>

\* run_chat_turn lines 117-128: llm.invoke returns
LLMAnswers(r, reply) ==
    /\ a_pc[r] \in {"asked", "asked_aborted"}
    /\ a_reply' = [a_reply EXCEPT ![r] = reply]
    /\ a_pc' = [a_pc EXCEPT ![r] = IF a_pc[r] = "asked" THEN "answered"
                                   ELSE "answered_aborted"]
    /\ UNCHANGED <<a_thread, a_q, a_session, a_history, a_sent, db_messages, a_clock>>
    /\ UNCHANGED <<ingestVars, extractVars, queryVars, imageVars, serviceVars,
                   retrieveVars, identityVars, collectionVars, chatVars, thread_response>>

\* run_chat_turn lines 130-132, generate_answer lines 228-232, get_session lines
\* 58-63: llm.invoke raises, 500, the session is rolled back and closed
LLMFails(r) ==
    /\ a_pc[r] \in {"asked", "asked_aborted"}
    /\ db_messages' = RolledBack(db_messages, a_session[r])
    /\ a_session' = [a_session EXCEPT ![r] = <<>>]
    /\ a_pc' = [a_pc EXCEPT ![r] = "failed"]
    /\ UNCHANGED <<a_thread, a_q, a_history, a_sent, a_reply, a_clock>>
    /\ UNCHANGED <<ingestVars, extractVars, queryVars, imageVars, serviceVars,
                   retrieveVars, identityVars, collectionVars, chatVars, thread_response>>

\* generate_answer lines 201-226: session.add(assistant_message), session.commit()
\* inserts it and makes the rows of the transaction visible to every session
Commit(r) ==
    /\ a_pc[r] = "answered"
    /\ LET assistant_message == Message(r, "assistant", a_reply[r], utcnow(a_clock))
       IN  db_messages' = db_messages \cup RangeOf(Append(a_session[r], assistant_message))
    /\ a_clock' = utcnow(a_clock)
    /\ a_session' = [a_session EXCEPT ![r] = <<>>]
    /\ a_pc' = [a_pc EXCEPT ![r] = "done"]
    /\ UNCHANGED <<a_thread, a_q, a_history, a_sent, a_reply>>
    /\ UNCHANGED <<ingestVars, extractVars, queryVars, imageVars, serviceVars,
                   retrieveVars, identityVars, collectionVars, chatVars, thread_response>>

\* generate_answer lines 212 and 228-232, get_session lines 58-63: session.commit()
\* raises, 500, the session is rolled back and closed
CommitFails(r) ==
    /\ a_pc[r] \in {"answered", "answered_aborted"}
    /\ db_messages' = RolledBack(db_messages, a_session[r])
    /\ a_session' = [a_session EXCEPT ![r] = <<>>]
    /\ a_pc' = [a_pc EXCEPT ![r] = "failed"]
    /\ UNCHANGED <<a_thread, a_q, a_history, a_sent, a_reply, a_clock>>
    /\ UNCHANGED <<ingestVars, extractVars, queryVars, imageVars, serviceVars,
                   retrieveVars, identityVars, collectionVars, chatVars, thread_response>>

NextAnswer ==
    \/ CreateThread
    \/ \E r \in Requests, q \in Questions : ThreadMissing(r, q)
    \/ \E r \in Requests, q \in Questions : AddUserMessage(r, q)
    \/ \E r \in Requests : ReadHistory(r)
    \/ \E r \in Requests : HistoryFails(r)
    \/ \E r \in Requests, reply \in Replies : LLMAnswers(r, reply)
    \/ \E r \in Requests : LLMFails(r)
    \/ \E r \in Requests : Commit(r)
    \/ \E r \in Requests : CommitFails(r)

AnswerInit ==
    /\ InitAnswer
    /\ IngestIdle /\ ExtractIdle /\ QueryIdle /\ ImageIdle
    /\ ServiceIdle /\ RetrieveIdle /\ IdentityIdle /\ CollectionIdle /\ ChatIdle
    /\ ThreadIdle

SpecAnswer == AnswerInit /\ [][NextAnswer]_vars

(***************************************************************************)
(* POST /api/thread (src/backend/main.py create_thread)                    *)
(***************************************************************************)
\* request.thread_id: absent, or given
NoThreadId == "<absent>"
ThreadIds == {NoThreadId, "t1"}

\* main.py line 95: request.thread_id or f"thread_{hash(request.message) % 10000}"
ThreadIdOf(thread_id) == IF thread_id = NoThreadId THEN "thread_hash" ELSE thread_id

\* main.py lines 41-45: ThreadResponse(thread_id, response, success, error)
ThreadResponse(thread_id, text, success, error) ==
    [thread_id |-> thread_id, response |-> text, success |-> success, error |-> error]

\* main.py lines 98-107: the answer of the result, with success=True
ThreadAnswered(thread_id, res) ==
    ThreadResponse(ThreadIdOf(thread_id), res.answer, TRUE, NoError)

\* main.py lines 109-116: except Exception
ThreadFailed(thread_id, message) ==
    ThreadResponse(IF thread_id = NoThreadId THEN "error" ELSE thread_id,
                   "", FALSE, message)

\* create_thread lines 94-107, once rag_pipeline.query has returned its result
ThreadRespond(thread_id) ==
    /\ q_pc = "returned"
    /\ thread_response' = ThreadAnswered(thread_id, result)
    /\ q_pc' = "thread_done"
    /\ UNCHANGED <<retrieved_docs, llm_obj, result, json_response, response,
                   parse_outcome, llm_calls, store_queries, tool_out>>
    /\ UNCHANGED <<ingestVars, extractVars, imageVars, serviceVars, retrieveVars,
                   identityVars, collectionVars, chatVars, answerVars>>

\* create_thread lines 90-92 and 109-116: rag_pipeline is None, the 503 is
\* caught by except Exception
ThreadUnavailable(thread_id) ==
    /\ q_pc = "start"
    /\ thread_response' = ThreadFailed(thread_id, "RAG pipeline not available")
    /\ q_pc' = "thread_done"
    /\ UNCHANGED <<retrieved_docs, llm_obj, result, json_response, response,
                   parse_outcome, llm_calls, store_queries, tool_out>>
    /\ UNCHANGED <<ingestVars, extractVars, imageVars, serviceVars, retrieveVars,
                   identityVars, collectionVars, chatVars, answerVars>>

NextThread ==
    \/ RetrieveOk
    \/ RetrieveFails
    \/ NoDocuments
    \/ GenerateOk
    \/ GenerateFails
    \/ \E thread_id \in ThreadIds : ThreadRespond(thread_id)
    \/ \E thread_id \in ThreadIds : ThreadUnavailable(thread_id)

ThreadInit ==
    /\ InitQuery /\ IngestIdle /\ ImageIdle
    /\ ServiceIdle /\ RetrieveIdle /\ IdentityIdle /\ CollectionIdle /\ ChatIdle
    /\ AnswerIdle /\ ThreadIdle

SpecThread == ThreadInit /\ [][NextThread]_vars

(***************************************************************************)
(* Response extraction: properties                                         *)
(***************************************************************************)
MinOf(S) == CHOOSE i \in S : \A j \in S : i <= j
MaxOf(S) == CHOOSE i \in S : \A j \in S : i >= j

\* 1-based positions of the fences, of the fences followed by json, of the braces
FencesOf(t) == {i \in 1..Len(t) : t[i] = Fence}
JsonOpensOf(t) == {i \in 1..(Len(t) - 1) : t[i] = Fence /\ t[i + 1] = "json"}
OpenBracesOf(t) == {i \in 1..Len(t) : t[i] = "{"}
CloseBracesOf(t) == {i \in 1..Len(t) : t[i] = "}"}

\* the response has a json fenced block: a fence followed by json, and a later fence
HasJsonBlock(t) ==
    \E i \in JsonOpensOf(t) : \E j \in FencesOf(t) : j > i + 1
\* the content of the first json fenced block
JsonBlockContent(t) ==
    LET i == MinOf(JsonOpensOf(t))
        j == MinOf({f \in FencesOf(t) : f > i + 1})
    IN  SubSeq(t, i + 2, j - 1)

\* the response has a fenced block of any kind: two fences
HasAnyBlock(t) == Cardinality(FencesOf(t)) >= 2
\* the content of the first fenced block
AnyBlockContent(t) ==
    LET i == MinOf(FencesOf(t))
        j == MinOf(FencesOf(t) \ {i})
    IN  SubSeq(t, i + 1, j - 1)

\* the response has a first '{' before its last '}'
HasBraceSlice(t) ==
    /\ OpenBracesOf(t) # {}
    /\ CloseBracesOf(t) # {}
    /\ MinOf(OpenBracesOf(t)) < MaxOf(CloseBracesOf(t))
BraceSlice(t) == SubSeq(t, MinOf(OpenBracesOf(t)), MaxOf(CloseBracesOf(t)))

\* t without its leading and trailing white space
Trimmed(t) ==
    LET solid == {i \in 1..Len(t) : t[i] # " "}
    IN  IF solid = {} THEN <<>> ELSE SubSeq(t, MinOf(solid), MaxOf(solid))

\* t cut to begin at its first '{' and then to end at its last '}', where it
\* has the brace and does not begin (end) with it already
BraceCut(t) ==
    LET a == IF OpenBracesOf(t) = {} \/ t[1] = "{" THEN 1 ELSE MinOf(OpenBracesOf(t))
        u == SubSeq(t, a, Len(t))
        b == IF CloseBracesOf(u) = {} \/ u[Len(u)] = "}" THEN Len(u)
             ELSE MaxOf(CloseBracesOf(u))
    IN  SubSeq(u, 1, b)

\* the response is prose, a json fence, a JSON object and a closing fence
IsProseFencedObject(t) ==
    \E i \in 2..Len(t) :
        /\ \A h \in 1..(i - 1) : t[h] \in {"p", " "}
        /\ \E h \in 1..(i - 1) : t[h] = "p"
        /\ i + 1 < Len(t)
        /\ t[i] = Fence
        /\ t[i + 1] = "json"
        /\ t[Len(t)] = Fence
        /\ IsFlatObject(SubSeq(t, i + 2, Len(t) - 1))

RECURSIVE Flatten(_)
Flatten(fs) == IF fs = <<>> THEN <<>> ELSE Head(fs) \o Flatten(Tail(fs))

\* the point a record is stored as
PointOf(rec) ==
    [id      |-> make_point_id(rec),
     payload |-> rec,
     dense   |-> DenseVec(TextOf(rec)),
     sparse  |-> SparseVec(TextOf(rec))]

\* the store after one uninterrupted pass over the records recs, in order
RECURSIVE PassStore(_, _)
PassStore(s, recs) ==
    IF recs = <<>> THEN s
    ELSE PassStore(IF TextOf(Head(recs)) = "" THEN s ELSE Upsert(s, PointOf(Head(recs))),
                   Tail(recs))

OnePassStore == PassStore({}, Flatten(corpus))

\* a record with text is still unread in the current invocation
UnreadRecordLeft ==
    \E f \in fi..Len(files) :
        \E j \in 1..Len(files[f]) :
            /\ (f = fi => j >= ri)
            /\ TextOf(files[f][j]) # ""

\* C1: every record written to the store, however often and in whichever
\* invocation or upload attempt, is held as exactly one point, the one with the
\* id derived from the record, no second point carries its payload, and the
\* point of the record written last carries that record's payload.
C1_IdempotentUpsert ==
    /\ \A r \in ingested :
        /\ Cardinality({p \in store : p.id = make_point_id(r)}) = 1
        /\ Cardinality({p \in store : p.payload = r}) <= 1
    /\ lastRec # NoRec =>
        \E p \in store : p.id = make_point_id(lastRec) /\ p.payload = lastRec

\* C1 witness: a record was written a second time in the resumed invocation
\* and is now the payload of exactly one point.
C1_Witness ==
    /\ run = "resumed"
    /\ \E r \in twice : Cardinality({p \in store : p.payload = r}) = 1

\* C2: an invocation that runs to its end leaves the store of one
\* uninterrupted pass over the whole corpus, also when it is the invocation
\* resumed from the index of the file that was being processed at the crash.
C2_BatchResumability == pc = "done" => store = OnePassStore

\* C2 witness: the first invocation died in the second file after writing
\* records, and the invocation resumed from index 1 has run to its end.
C2_Witness ==
    /\ run = "resumed"
    /\ pc = "done"
    /\ start_index = 1
    /\ twice # {}
    /\ \E j \in 1..Len(corpus[1]) : TextOf(corpus[1][j]) # ""

\* C3: the upload of one chunk is called at most max_retries times, and once an
\* invocation has failed it takes no further step: nothing more is read,
\* encoded or written by it.
C3_RetryBudget ==
    /\ [](calls <= max_retries /\ (pc = "upload" => attempt < max_retries))
    /\ [][(pc = "failed" /\ run' = run) =>
            (pc' = "failed" /\ store' = store /\ encoded' = encoded
             /\ fi' = fi /\ ri' = ri)]_vars

\* C3 witness: the retry budget is used up, the invocation has failed, and
\* records with text are still unread.
C3_Witness ==
    /\ pc = "failed"
    /\ calls = max_retries
    /\ attempt = max_retries
    /\ UnreadRecordLeft


(***************************************************************************)
(* One question: properties                                                *)
(***************************************************************************)
\* query_json has returned
Returned == q_pc \in {"done", "tool_done"}
\* query_json has returned the parsed answer of the LLM (lines 96-104)
Answered == Returned /\ response.answer.kind = "llm_markdown"

UrlsOf(items) == [i \in 1..Len(items) |-> items[i].url]
\* the positions at which a URL occurs for the first time
FirstAt(u) == { i \in 1..Len(u) : \A j \in 1..(i - 1) : u[j] # u[i] }
NthOf(S, k) == CHOOSE i \in S : Cardinality({ j \in S : j <= i }) = k
\* out lists the URLs of u once each, in the order of their first occurrence
IsFirstOccurrenceList(out, u) ==
    /\ Len(out) = Cardinality(FirstAt(u))
    /\ \A k \in 1..Len(out) : out[k] = u[NthOf(FirstAt(u), k)]
HasNoDuplicate(u) == FirstAt(u) = 1..Len(u)
\* the returned list is the list the LLM gave, entry for entry
SameList(out, items) ==
    /\ Len(out) = Len(items)
    /\ \A i \in 1..Len(items) : items[i].kind = "str" /\ out[i] = items[i].url
AllStrings(items) == \A i \in 1..Len(items) : items[i].kind = "str"
\* every entry carries a non-empty URL string
AllUrls(items) == \A i \in 1..Len(items) : items[i].url \in {"U1", "U2"}

C5_AsStated ==
    Returned =>
        \A i \in 1..Len(response.citations) : response.citations[i] \notin {"", Null, Arr}

\* C6 as stated: when the LLM's answer parses and each of its markers [n] is
\* within its citations list, each marker of the returned answer is within the
\* returned citations list (stated for lists whose entries all carry a
\* non-empty URL string).
C6_AsStated ==
    (Returned /\ parse_outcome = "ok" /\ AllUrls(llm_obj.citations)
              /\ \A n \in llm_obj.markers : n <= Len(llm_obj.citations)) =>
        \A n \in response.answer.markers : n <= Len(response.citations)

\* C7 as stated: every returned citation is the url of the payload of a
\* document retrieved for the query (stated for answers whose citations all
\* carry a non-empty URL string).
C7_AsStated ==
    (Returned /\ AllUrls(llm_obj.citations)) =>
        \A i \in 1..Len(response.citations) :
            \E d \in 1..Len(retrieved_docs) : retrieved_docs[d].url = response.citations[i]

\* C9: when json.loads fails, the result is the raw LLM text with no citations,
\* confidence 0 and an error marker; a parsed answer, whatever its confidence,
\* carries no error marker; the LLM was called once.
C9_ParseFailureFallback ==
    /\ (Returned /\ parse_outcome = "failed") =>
        /\ response.answer = RawAnswer(raw_answer)
        /\ response.citations = <<>>
        /\ response.confidence = 0
        /\ response.error # NoError
        /\ llm_calls = 1
    /\ Answered => (parse_outcome = "ok" /\ response.error = NoError)
    /\ llm_calls <= 1

\* C9 witness: a fenced object cut short did not parse and came back raw.
C9_Witness ==
    /\ Returned
    /\ parse_outcome = "failed"
    /\ raw_answer = <<Fence, "json", "{", "p", Fence>>
    /\ response.answer.text = raw_answer
    /\ response.error = "Failed to parse JSON response"

\* C10 as stated: when nothing is retrieved, the result says that nothing
\* relevant was found, has no citations and no error marker, and the search
\* tool presents it as an answer.
C10_AsStated ==
    (Returned /\ result.answer = NoMatchAnswer) =>
        /\ response.answer = NoMatchAnswer
        /\ response.citations = <<>>
        /\ response.error = NoError
        /\ q_pc = "tool_done" => tool_out = "answer"

\* C13 as stated: when the image step of a parsed answer with image_keywords
\* fails, the answer_markdown, citations and confidence_score of the parsed
\* answer are in the result (stated for answers whose citations all carry a
\* non-empty URL string).
C13_AsStated ==
    (Returned /\ parse_outcome = "ok" /\ AllUrls(llm_obj.citations)
              /\ image_search \in {"search_failed", "raised"}) =>
        /\ response.answer = LLMMarkdown(llm_obj.markers)
        /\ response.citations = json_response.citations
        /\ response.confidence = llm_obj.confidence

(***************************************************************************)
(* The answer services: properties                                         *)
(***************************************************************************)
\* C11 as stated: when the LLM call of the pipeline fails while RAGService
\* answers, the service takes the direct-knowledge path (whose own failure
\* ends in the apology) and does not return the pipeline's error text.
C11_AsStated ==
    (s_pc = "done" /\ svc = "rag_service" /\ llm_calls = 1 /\ ~result.success) =>
        /\ svc_path \in {"direct", "apology"}
        /\ svc_response.answer_markdown # PipelineErrorAnswer

\* a step of generate_answer other than the LLM of the pipeline answering (when
\* that step is possible, so is the LLM failing) and the extraction (possible
\* when ExtractCanRun)
ServiceStep ==
    \/ CallQueryRagJson
    \/ AgentAnswers
    \/ AgentFails
    \/ ConstructFails
    \/ ConvertOk
    \/ ConvertRaises
    \/ DirectOk
    \/ DirectFails
    \/ Apology
    \/ /\ s_pc = "in_query"
       /\ \/ RetrieveOk
          \/ RetrieveFails
          \/ NoDocuments
          \/ GenerateFails
          \/ ReturnFailure
          \/ ParseOk
          \/ ParseFails
          \/ Reconcile
          \/ ReturnAnswer
          \/ ImageStepRaises

ExtractCanRun == s_pc = "in_query" /\ q_pc = "returned" /\ result.success

\* C12: generate_answer of either service never raises and always ends with
\* a response, whichever of the agent, the pipeline and the direct LLM call
\* fail; a response of the direct-knowledge path or of the apology has no
\* citations and confidence 0.
C12_LadderTotal ==
    /\ s_pc # "raised"
    /\ s_pc = "done" => svc_path # "none"
    /\ s_pc # "done" => (ExtractCanRun \/ ENABLED ServiceStep)
    /\ (s_pc = "done" /\ svc_path \in {"direct", "apology"}) =>
        /\ svc_response.citations = <<>>
        /\ svc_response.confidence_score = 0

\* C12 witness: RAGService, the pipeline raised and the direct LLM call raised
\* too; the apology was returned.
C12_Witness ==
    /\ svc = "rag_service"
    /\ q_pc = "raised"
    /\ direct_calls = 1
    /\ s_pc = "done"
    /\ svc_path = "apology"
    /\ svc_response = RAGResponse(ApologyAnswer, <<>>, 0)

(***************************************************************************)
(* Retrieval: properties                                                   *)
(***************************************************************************)
\* C14: retrieve_top_k returns one document per point the store reports, in
\* the store's order, none dropped, added or repeated, hence at most k; for
\* zero points it returns the empty list; it raises only when the store does.
C14_RetrievalCardinality ==
    /\ r_status.outcome = "returned" =>
        /\ Len(r_results) = Len(r_points)
        /\ \A i \in 1..Len(r_points) :
            /\ r_results[i].id = r_points[i].id
            /\ r_results[i].score = r_points[i].score
        /\ IsInjective([i \in 1..Len(r_results) |-> r_results[i].id])
        /\ Len(r_results) <= r_status.limit
        /\ r_points = <<>> => r_results = <<>>
    /\ r_status.outcome = "raised" => r_status.store = "failed"
    /\ r_status.store = "ok" => r_status.outcome = "returned"

\* C14 witness: three points match, k is 2 and the second point reported has
\* no payload; two documents came back.
C14_Witness ==
    /\ r_status.outcome = "returned"
    /\ r_status.limit = 2
    /\ Cardinality(RangeOf(dense_rank) \cup RangeOf(sparse_rank)) = 3
    /\ Len(r_points) = 2
    /\ r_points[2].payload = NoPayload
    /\ Len(r_results) = 2
    /\ r_results[2].id = r_points[2].id

\* C15: whatever top_k the pipeline was built with and whatever a caller
\* suggests, each retrieval the pipeline issues asks the store for 15.
C15_FixedRetrievalWidth ==
    /\ \A limit \in asked : limit = 15
    /\ r_status.via \in {"query", "get_retrieval_only"} => r_status.limit = 15
    /\ r_status.via = "search" => r_status.store = "none"

\* C15 witness: a pipeline that has retrieved before answers
\* get_retrieval_only with the three matching points.
C15_Witness ==
    /\ asked = {15}
    /\ r_status.via = "get_retrieval_only"
    /\ r_status.outcome = "returned"
    /\ Len(r_points) = 3

\* the position of point p in the reported points, 0 when it is not reported
PositionOf(points, p) ==
    IF \E i \in 1..Len(points) : points[i].id = p
    THEN CHOOSE i \in 1..Len(points) : points[i].id = p
    ELSE 0

\* C17: a point ranked first by both the dense and the sparse list is first in
\* the fused result and no candidate that is absent from one of the lists is
\* placed above it.
C17_FusionMonotonicity ==
    (r_status.outcome = "returned" /\ dense_rank # <<>> /\ sparse_rank # <<>>
                                   /\ dense_rank[1] = sparse_rank[1]) =>
        /\ r_points # <<>>
        /\ r_points[1].id = dense_rank[1]
        /\ \A q \in PointIds :
            (PositionOf(r_points, q) # 0
                /\ (q \notin RangeOf(dense_rank) \/ q \notin RangeOf(sparse_rank))) =>
                PositionOf(r_points, q) > PositionOf(r_points, dense_rank[1])

\* C17 witness: point 2 leads both lists, point 1 is second in the dense list
\* only and point 3 second in the sparse list only; point 2 was reported first.
C17_Witness ==
    /\ r_status.outcome = "returned"
    /\ dense_rank = <<2, 1>>
    /\ sparse_rank = <<2, 3>>
    /\ Len(r_points) = 3
    /\ r_points[1].id = 2

(***************************************************************************)
(* Chunk identity: properties                                              *)
(***************************************************************************)
\* C16 as stated: two triples (corpus ID, section path, body text) that
\* differ in a component get different IDs, and equal triples get equal IDs.
C16_AsStated ==
    id_pc = "done" =>
        /\ id_a # id_b => id_out[1] # id_out[2]
        /\ id_a = id_b => id_out[1] = id_out[2]

(***************************************************************************)
(* Ingestion: the skip of records without text                             *)
(***************************************************************************)
\* C18: a record whose text is missing or empty is never buffered, its text is
\* never handed to an encoder and it is never the payload of a written point.
C18_EmptyTextSkip ==
    /\ \A i \in 1..Len(buffer_records) : TextOf(buffer_records[i]) # ""
    /\ \A i \in 1..Len(buffer_texts) : buffer_texts[i] # ""
    /\ \A t \in encoded : t # ""
    /\ \A r \in ingested : TextOf(r) # ""
    /\ \A p \in store : TextOf(p.payload) # ""

\* C18 witness: a file holds a record without text and a record with empty
\* text next to a record with text; the invocation ended and wrote a point.
C18_Witness ==
    /\ pc = "done"
    /\ run = "first"
    /\ Len(corpus[1]) = 3
    /\ corpus[1][2].text = Missing
    /\ \E j \in {1, 3} : corpus[1][j].text = ""
    /\ Cardinality(store) = 1
    /\ encoded # {}

(***************************************************************************)
(* Collections: properties                                                 *)
(***************************************************************************)
\* the store lists a collection of the name
TargetListed == TargetName \in {c.name : c \in collections}

\* C19 as stated: a sequence of calls for one name issues at most one create
\* request, and a call that finds the collection changes nothing.
C19_AsStated ==
    /\ [](create_requests <= 1)
    /\ [][TargetListed => collections' = collections]_vars

\* C19: a create request is issued only by a call that does not find the
\* collection listed; once the collection exists no call issues a request or
\* changes the store, whatever the configuration of the existing collection;
\* the store never holds two collections of the name.
C19_CreateIfAbsent ==
    /\ [](Cardinality({c \in collections : c.name = TargetName}) <= 1)
    /\ [][create_requests' # create_requests =>
            (~TargetListed /\ create_requests' = create_requests + 1)]_vars
    /\ [][TargetListed =>
            (collections' = collections /\ create_requests' = create_requests)]_vars
    /\ [](c_last = "created" =>
            [name |-> TargetName, config |-> WantedConfig] \in collections)

\* C19 witness: the first create request failed and left nothing, the second
\* call created the collection and the third found it.
C19_Witness ==
    /\ ensure_calls = 3
    /\ create_requests = 2
    /\ c_last = "found"
    /\ [name |-> TargetName, config |-> WantedConfig] \in collections

(***************************************************************************)
(* Chat sessions: properties                                               *)
(***************************************************************************)
RECURSIVE MessagesOfTurns(_)
\* the messages of a sequence of turns: user message, assistant answer, ...
MessagesOfTurns(turns) ==
    IF turns = <<>> THEN <<>>
    ELSE << [role |-> "user", content |-> Head(turns).user],
            [role |-> "assistant", content |-> Head(turns).assistant] >>
         \o MessagesOfTurns(Tail(turns))

\* C20: a request carrying the id of an existing session is answered in that
\* session; the history handed to answer generation is the messages of the
\* session's earlier turns; the stored messages of every session are its
\* turns in order, user then assistant, two per turn.
C20_SessionContinuity ==
    /\ last_chat.existed => last_chat.session = last_chat.request
    /\ (last_chat.session # NoSessionId /\ last_chat.session \in DOMAIN sessions) =>
        LET turns == chat_log[last_chat.session]
            earlier == MessagesOfTurns(SubSeq(turns, 1, Len(turns) - 1))
        IN  /\ Len(handed) = Len(earlier)
            /\ \A i \in 1..Len(earlier) :
                handed[i] = <<earlier[i].role, earlier[i].content>>
    /\ \A sid \in DOMAIN sessions :
        /\ sessions[sid] = MessagesOfTurns(chat_log[sid])
        /\ Len(sessions[sid]) = 2 * Len(chat_log[sid])
        /\ \A i \in 1..Len(sessions[sid]) :
            sessions[sid][i].role = IF i % 2 = 1 THEN "user" ELSE "assistant"

\* C20 witness: the second turn of session s1 was made with its id after
\* another session was opened; the history handed over was the first turn.
C20_Witness ==
    /\ last_chat.existed
    /\ last_chat.request = "s1"
    /\ last_chat.session = "s1"
    /\ DOMAIN sessions = {"s1", "s2"}
    /\ Len(sessions["s1"]) = 4
    /\ handed = << <<"user", "q1">>, <<"assistant", "answer">> >>
    /\ sessions["s1"][3] = [role |-> "user", content |-> "q2"]

(***************************************************************************)
(* Ingestion: the waits between upload attempts                            *)
(***************************************************************************)
\* C21 as stated: the waits between the failed attempts of one chunk grow
\* exponentially: each wait is the previous one times one fixed factor
\* greater than one.
C21_AsStated ==
    /\ \A i \in 2..Len(waits) : waits[i] > waits[i - 1]
    /\ \A i \in 3..Len(waits) : waits[i] * waits[i - 2] = waits[i - 1] * waits[i - 1]

(***************************************************************************)
(* Response extraction: missing fence markers                              *)
(***************************************************************************)
\* the response holds one JSON object and no brace outside it
HasOneObject(t) ==
    /\ Cardinality(OpenBracesOf(t)) = 1
    /\ Cardinality(CloseBracesOf(t)) = 1
    /\ IsFlatObject(BraceSlice(t))
\* the fences of the response are at most an opening one before the object
\* and a closing one after it: any of the two may be missing
FencesAround(t) ==
    /\ Cardinality({i \in FencesOf(t) : i < MinOf(OpenBracesOf(t))}) <= 1
    /\ Cardinality({i \in FencesOf(t) : i > MaxOf(CloseBracesOf(t))}) <= 1

NormalLines(lines) == IF lines = <<"">> THEN <<>> ELSE lines

\* C23 as stated: the text of a document retrieved for a chunk the parser
\* wrote is the chunk's body alone, without the section-path line and the
\* provenance line, and full_payload keeps the stored text.
C23_AsStated ==
    r_status.outcome = "returned" =>
        \A i \in 1..Len(r_results) : \A n \in 1..Len(ParserChunks) :
            r_points[i].payload = [text |-> text_field(ParserChunks[n]), section |-> "Results"] =>
                /\ NormalLines(r_results[i].text) = ParserChunks[n].body
                /\ \A j \in 1..Len(r_results[i].text) :
                    r_results[i].text[j] \notin {ParserChunks[n].header, ParserChunks[n].prov}
                /\ r_results[i].full_payload.text = text_field(ParserChunks[n])

(***************************************************************************)
(* One question: the order of the steps                                    *)
(***************************************************************************)
\* the steps of one query in their order
StepRank(at) ==
    CASE at = "start" -> 0
      [] at = "retrieved" -> 1
      [] at = "returned" -> 2
      [] at = "extracted" -> 3
      [] at = "parsed" -> 4
      [] at = "reconciled" -> 5
      [] at = "done" -> 6
      [] at = "tool_done" -> 7

\* C24: the store is queried once and the LLM at most once, only after the
\* retrieval has returned documents; the citations are reconciled only after
\* json.loads has returned; every step moves the query forward in the order
\* retrieval, LLM call, extraction, parse, reconciliation, result.
C24_StepOrder ==
    /\ [](store_queries <= 1 /\ llm_calls <= 1)
    /\ [](llm_calls = 1 => (store_queries = 1 /\ retrieved_docs # <<>>
                             /\ StepRank(q_pc) >= 2))
    /\ [](StepRank(q_pc) \in {3, 4, 5} => (llm_calls = 1 /\ result.success))
    /\ [](StepRank(q_pc) \in {4, 5} => parse_outcome = "ok")
    /\ [](parse_outcome # "none" => (llm_calls = 1 /\ result.success))
    /\ [][q_pc' = "reconciled" => (q_pc = "parsed" /\ parse_outcome = "ok")]_vars
    /\ [][llm_calls' # llm_calls => (q_pc = "retrieved" /\ llm_calls' = 1)]_vars
    /\ [][StepRank(q_pc') > StepRank(q_pc)]_vars

\* C24 witness: a query went through every step and returned the answer.
C24_Witness ==
    /\ q_pc = "done"
    /\ store_queries = 1
    /\ llm_calls = 1
    /\ parse_outcome = "ok"
    /\ response.error = NoError
    /\ response.citations = <<"U1">>

(***************************************************************************)
(* Ingestion: batching                                                     *)
(***************************************************************************)
RECURSIVE WithText(_)
\* the records with text among recs, in order
WithText(recs) ==
    IF recs = <<>> THEN <<>>
    ELSE (IF TextOf(Head(recs)) = "" THEN <<>> ELSE <<Head(recs)>>) \o WithText(Tail(recs))

\* C25: every batch handed to upsert_batch has between 1 and batch_size
\* records, each paired with the vectors of its own text; when an invocation
\* ends, the batches taken together are the records with text of the selected
\* files, each occurrence once and in order, and the buffer is empty.
C25_BatchingExactlyOnce ==
    /\ \A b \in 1..Len(flushes) :
        /\ Len(flushes[b]) \in 1..BatchSize
        /\ \A i \in 1..Len(flushes[b]) :
            /\ flushes[b][i].dense = DenseVec(TextOf(flushes[b][i].rec))
            /\ flushes[b][i].sparse = SparseVec(TextOf(flushes[b][i].rec))
    /\ pc = "done" =>
        /\ LET handed_over == Flatten(flushes)
           IN  [i \in 1..Len(handed_over) |-> handed_over[i].rec] = WithText(Flatten(files))
        /\ buffer_records = <<>>
        /\ buffer_texts = <<>>

\* C25 witness: three records with text in one file and a batch size of two:
\* a full batch and the rest at the end of the file, no call failed.
C25_Witness ==
    /\ pc = "done"
    /\ run = "first"
    /\ Len(corpus[1]) = 3
    /\ WithText(corpus[1]) = corpus[1]
    /\ Len(flushes) = 2
    /\ Len(flushes[1]) = 2
    /\ Len(flushes[2]) = 1
    /\ twice = {}

(***************************************************************************)
(* One question: the store query fails                                     *)
(***************************************************************************)
\* C26: when retrieve_top_k raises, query returns a result with success false
\* and the error message; the store was queried once, the LLM is not called
\* then or later, and query_json hands the message on.
C26_StoreQueryFailure ==
    /\ [][(q_pc = "start" /\ q_pc' = "returned") =>
            /\ ~result'.success
            /\ result'.error = "Retrieval failed"
            /\ result'.answer = PipelineErrorAnswer
            /\ store_queries' = 1
            /\ llm_calls' = 0]_vars
    /\ []((StepRank(q_pc) >= 2 /\ result.error = "Retrieval failed") =>
            /\ store_queries = 1
            /\ llm_calls = 0
            /\ q_pc \in {"returned", "done", "tool_done"}
            /\ Returned => (response.error = "Retrieval failed"
                            /\ response.citations = <<>>))

\* C26 witness: the store query raised and query_json has returned the error.
C26_Witness ==
    /\ q_pc = "done"
    /\ result = PipelineFailure("Retrieval failed")
    /\ store_queries = 1
    /\ llm_calls = 0
    /\ response.error = "Retrieval failed"

\* the committed rows that request r made
StoredOf(r) == { m \in db_messages : m.turn = r }

\* C27: POST /answer persists a turn atomically: once the request has completed,
\* either the user message and the assistant message of the turn are both
\* stored, or, when answer generation (or the request as a whole) failed,
\* neither is; at no time is only one of the two stored
C27_AtomicTurn ==
    a_pc # <<>> =>
        \A r \in Requests :
            /\ a_pc[r] = "done" =>
                   /\ Cardinality(StoredOf(r)) = 2
                   /\ \E u, a \in StoredOf(r) :
                          /\ u.role = "user" /\ u.content = a_q[r]
                          /\ a.role = "assistant" /\ a.content = a_reply[r]
            /\ a_pc[r] # "done" => StoredOf(r) = {}

\* one request has stored its turn after another, whose user message had
\* already been inserted, failed at the LLM
C27_Witness ==
    /\ a_pc # <<>>
    /\ \E r, f \in Requests :
           /\ a_pc[r] = "done"
           /\ Cardinality(StoredOf(r)) = 2
           /\ a_pc[f] = "failed"
           /\ a_history[f] # <<>>
           /\ a_reply[f] = "none"

\* C28 as stated: the messages list sent to the LLM is the system prompt, the
\* stored messages of earlier turns in creation order, and the current
\* question as its last entry; the history never holds the user message of
\* the turn being answered
C28_AsStated ==
    a_pc # <<>> =>
        \A r \in Requests :
            a_sent[r] # <<>> =>
                /\ a_sent[r] = LLMMessages(a_history[r], a_q[r])
                /\ \A i \in 1..Len(a_history[r]) : a_history[r][i].turn # r

\* the rows of the thread as Thread.messages and get_history read them
ThreadMessages == OrderByCreatedAt(db_messages)

\* C29 as stated: the stored messages of the thread, read in created_at order,
\* are user/assistant pairs, every assistant message immediately after the
\* user message it answers
C29_AsStated ==
    /\ Len(ThreadMessages) % 2 = 0
    /\ \A i \in 1..Len(ThreadMessages) :
           i % 2 = 1 =>
               /\ ThreadMessages[i].role = "user"
               /\ ThreadMessages[i + 1].role = "assistant"
               /\ ThreadMessages[i + 1].turn = ThreadMessages[i].turn

\* C30 as stated: POST /api/thread reports success=true only when the result
\* of the pipeline for the message has success true; when retrieval finds no
\* documents, or retrieval or generation fails, the response has success=false
C30_AsStated ==
    (q_pc = "thread_done" /\ thread_response.success) => result.success

====
